---- MODULE Spec2Model ----
(***************************************************************************)
(* Model of libobs/obs-output.c: the packet interleaver, the reconnect     *)
(* controller and the stop paths of an output.                             *)
(***************************************************************************)
EXTENDS Integers, Sequences, FiniteSets, TLC

VARIABLES
    \* ---- interleaver (struct obs_output, guarded by interleaved_mutex)
    interleaved_packets, received_video, received_audio,
    highest_video_ts, highest_audio_ts, video_offset, audio_offsets,
    total_frames,
    \* ---- environment of the interleaver
    env,            \* the encoders bound to the output
    enc_dts,        \* last dts produced by each encoder
    npackets,       \* packets fed so far
    sent,           \* packets handed to info.encoded_packet, in order
    fed,            \* packets the encoders passed to the callback, in order
    \* ---- lifecycle
    output,         \* struct obs_output: flags, events, reconnect fields
    sink,           \* what the sink plugin is doing
    signals,        \* signals the last handler emitted, in order
    calls,          \* calls the last handler made, in order
    last,           \* the last handler, its argument and the output before
    delays,         \* reconnect_retry_cur_msec of each scheduled reconnect
    emitted,        \* how many times each signal was emitted so far
    stops,          \* obs_output_stop and obs_output_force_stop calls so far
    \* ---- captions and services
    caption,        \* the caption queues of the output and their pacing
    services,       \* the output and service pointers of the bindings
    mutexes,        \* the thread that holds each mutex (0: free)
    \* ---- callers of the stop functions, statement by statement
    pc              \* for each caller: the function it called and where it is

ilVars == <<interleaved_packets, received_video, received_audio,
            highest_video_ts, highest_audio_ts, video_offset, audio_offsets,
            total_frames, env, enc_dts, npackets, sent, fed>>

lcVars == <<output, sink, signals, calls, last, delays, emitted, stops>>

exVars == <<caption, services, mutexes>>

vars == <<ilVars, lcVars, exVars, pc>>

\* ------------------------------------------------------------------ bounds

MaxPackets == 8

\* text captions and CEA-708 packets queued during one session
MaxCaptions == 2

\* outputs and services that can be bound to each other
NumOutputs == 3
NumServices == 3

\* ------------------------------------------------------------------ inputs

VIDEO == "OBS_ENCODER_VIDEO"
AUDIO == "OBS_ENCODER_AUDIO"

Tracks == 0..1

\* The encoders of one session: the number of audio mixes, the video
\* encoder's pts - dts (its B-frame delay), the dts steps between two packets
\* of one encoder (0: the same dts again), the dts before each encoder's first
\* packet, whether the video encoder is fresh (its first packet is a keyframe)
\* or already running for another output, and the timebases.
Encoder(mixes, delay, vsteps, asteps, astart, fresh) ==
    [num_mixes |-> mixes, pts_delay |-> delay,
     video_steps |-> vsteps, audio_steps |-> asteps,
     video_start |-> 2, audio_start |-> astart, key_first |-> fresh,
     video_den |-> 30, audio_den |-> 60,
     priority |-> [key \in BOOLEAN |-> IF key THEN 3 ELSE 2]]

\* strictly increasing dts on every track
StrictEncoders ==
    {Encoder(1, d, {1}, {1, 2}, <<3, 3>>, TRUE) : d \in {0, 1, 2}}
    \cup {Encoder(2, 0, {1}, {1}, <<5, 6>>, TRUE),
          Encoder(1, 0, {1}, {1}, <<8, 8>>, FALSE)}

\* a video encoder that repeats a dts
Encoders == StrictEncoders \cup {Encoder(1, 0, {0, 1}, {1}, <<3, 3>>, TRUE)}

num_audio_mixes == env.num_mixes

Min(S) == CHOOSE x \in S : \A y \in S : x <= y
Max(S) == CHOOSE x \in S : \A y \in S : x >= y
Abs(x) == IF x < 0 THEN -x ELSE x

\* C integer division truncates toward zero (b > 0)
CDiv(a, b) == IF a >= 0 THEN a \div b ELSE -((-a) \div b)

packet_dts_usec(p) == CDiv(p.dts * 1000000 * p.timebase_num, p.timebase_den)

\* ------------------------------------------------------------ interleaver

\* the fields of struct obs_output the interleaver works on
Output == [interleaved_packets |-> interleaved_packets,
           received_video |-> received_video,
           received_audio |-> received_audio,
           highest_video_ts |-> highest_video_ts,
           highest_audio_ts |-> highest_audio_ts,
           video_offset |-> video_offset,
           audio_offsets |-> audio_offsets,
           total_frames |-> total_frames,
           sent |-> sent,
           caption |-> caption]

check_received(o, out) ==
    IF out.type = VIDEO
    THEN [o EXCEPT !.received_video = TRUE]
    ELSE [o EXCEPT !.received_audio = TRUE]

apply_interleaved_packet_offset(o, out) ==
    LET offset == IF out.type = VIDEO THEN o.video_offset
                  ELSE o.audio_offsets[out.track_idx]
        q == [out EXCEPT !.dts = @ - offset, !.pts = @ - offset]
    IN [q EXCEPT !.dts_usec = packet_dts_usec(q)]

has_higher_opposing_ts(o, packet) ==
    IF packet.type = VIDEO
    THEN o.highest_audio_ts > packet.dts_usec
    ELSE o.highest_video_ts > packet.dts_usec

\* the pointers of obs_output_set_service: output->service of each output
\* and service->output of each service, with the active flag of both
NULL == 0

OutputIds == 1..NumOutputs

ServiceIds == 1..NumServices

\* the encoders two outputs can be given, and the mutexes of this file: each
\* encoder's pause.mutex and init_mutex, each output's interleaved_mutex and
\* caption_mutex
VideoEncoderIds == {"video 1", "video 2"}

AudioEncoderIds == {"audio 1", "audio 2"}

OutputNames == {"output 1", "output 2"}

Mutexes ==
    ({"pause.mutex", "init_mutex"} \X (VideoEncoderIds \cup AudioEncoderIds))
    \cup ({"interleaved_mutex", "caption_mutex"} \X OutputNames)

NoMutexes == [m \in Mutexes |-> 0]

NoServices ==
    [output |-> [o \in OutputIds |-> [service |-> NULL, active |-> FALSE]],
     service |-> [s \in ServiceIds |-> [output |-> NULL, active |-> FALSE]]]

\* the caption queues of a created output: the list from caption_head (text
\* and display_duration in seconds), caption_timestamp, the number of 3-byte
\* packets in caption_data, the file-scope last_caption_timestamp, and the
\* SEIs add_caption has put into packets so far.  Timestamps of frames are
\* doubles in seconds in the source; here they are kept exactly, in units of
\* 1/timebase_den seconds of the video encoder.
NoCaptions == [caption_head |-> <<>>, caption_timestamp |-> 0,
               caption_data |-> 0, last_caption_timestamp |-> 0,
               injected |-> <<>>]

\* (out.pts * out.timebase_num) / (double)out.timebase_den, times timebase_den
frame_timestamp(out) == out.pts * out.timebase_num

\* the test that guards the text caption in send_interleaved
caption_due_unpaced(c, out) == c.caption_head # <<>>

caption_due(c, out) ==
    c.caption_head # <<>> /\ c.caption_timestamp <= frame_timestamp(out)

\* [ok, c]: the CEA-708 queue goes first and is emptied; otherwise the head of
\* the text list is rendered and popped; the payload of the packet grows by
\* the SEI, which is all that changes in the packet
add_caption(c, out) ==
    LET sei(kind, d) == [kind |-> kind, seq |-> out.seq,
                         frame_timestamp |-> frame_timestamp(out),
                         display_duration |-> d]
    IN IF out.priority > 1 THEN [ok |-> FALSE, c |-> c]
       ELSE IF c.caption_data > 0
       THEN [ok |-> TRUE,
             c |-> [c EXCEPT !.caption_data = 0,
                             !.injected = Append(@, sei("cea708", 0))]]
       ELSE IF c.caption_head # <<>>
       THEN [ok |-> TRUE,
             c |-> [c EXCEPT !.caption_head = Tail(@),
                             !.injected = Append(@,
                                 sei("text",
                                     c.caption_head[1].display_duration))]]
       ELSE [ok |-> TRUE, c |-> [c EXCEPT !.injected = Append(@, sei("", 0))]]

\* the part of send_interleaved under caption_mutex, for a video packet
send_captions(c, out) ==
    LET ft == frame_timestamp(out)
        a == add_caption(c, out)
        c1 == IF caption_due(c, out)
              THEN IF a.ok
                   THEN [a.c EXCEPT !.caption_timestamp =
                            ft + c.caption_head[1].display_duration
                                    * out.timebase_den]
                   ELSE a.c
              ELSE c
    IN IF c1.caption_data > 0 /\ c1.last_caption_timestamp < ft
       THEN add_caption([c1 EXCEPT !.last_caption_timestamp = ft], out).c
       ELSE c1

send_interleaved(o) ==
    LET out == o.interleaved_packets[1]
    IN IF ~has_higher_opposing_ts(o, out) THEN o
       ELSE [o EXCEPT !.interleaved_packets = Tail(@),
                      !.total_frames = IF out.type = VIDEO THEN @ + 1 ELSE @,
                      !.caption = IF out.type = VIDEO
                                  THEN send_captions(@, out) ELSE @,
                      !.sent = Append(@, out)]

set_higher_ts(o, packet) ==
    IF packet.type = VIDEO
    THEN [o EXCEPT !.highest_video_ts =
              IF @ < packet.dts_usec THEN packet.dts_usec ELSE @]
    ELSE [o EXCEPT !.highest_audio_ts =
              IF @ < packet.dts_usec THEN packet.dts_usec ELSE @]

\* indices are 0-based as in the source; -1 when there is none
MatchIdx(pk, type, audio_idx) ==
    {i \in 1..Len(pk) : pk[i].type = type
                        /\ (type = AUDIO => pk[i].track_idx = audio_idx)}

find_first_packet_type_idx(o, type, audio_idx) ==
    LET S == MatchIdx(o.interleaved_packets, type, audio_idx)
    IN IF S = {} THEN -1 ELSE Min(S) - 1

find_last_packet_type_idx(o, type, audio_idx) ==
    LET S == MatchIdx(o.interleaved_packets, type, audio_idx)
    IN IF S = {} THEN -1 ELSE Max(S) - 1

PacketAt(o, idx) == o.interleaved_packets[idx + 1]

\* gets the point where audio and video are closest together
get_interleaved_start_idx(o) ==
    LET pk == o.interleaved_packets
        video_idx == find_first_packet_type_idx(o, VIDEO, 0)
        first_video == PacketAt(o, video_idx)
        A == {i \in 1..Len(pk) : pk[i].type = AUDIO}
        diff(i) == Abs(pk[i].dts_usec - first_video.dts_usec)
        \* strict '<' keeps the first of the closest audio packets
        idx == IF A = {} THEN 0
               ELSE Min({i \in A : \A j \in A : diff(i) <= diff(j)}) - 1
    IN IF video_idx < idx THEN video_idx ELSE idx

\* prune_premature_packets deciding on the distance |audio - video| of the
\* last track
prune_premature_packets_abs(o) ==
    LET video_idx == find_first_packet_type_idx(o, VIDEO, 0)
        aidx(i) == find_first_packet_type_idx(o, AUDIO, i)
        mixes == 0..(num_audio_mixes - 1)
    IN IF video_idx = -1
       THEN [ret |-> -1, o |-> [o EXCEPT !.received_video = FALSE]]
       ELSE IF \E i \in mixes : aidx(i) = -1
       THEN [ret |-> -1, o |-> [o EXCEPT !.received_audio = FALSE]]
       ELSE LET video == PacketAt(o, video_idx)
                duration_usec ==
                    CDiv(video.timebase_num * 1000000, video.timebase_den)
                max_idx == Max({video_idx} \cup {aidx(i) : i \in mixes})
                diff == IF num_audio_mixes = 0 THEN 0
                        ELSE Abs(PacketAt(o, aidx(num_audio_mixes - 1)).dts_usec
                                 - video.dts_usec)
            IN [ret |-> IF diff > duration_usec THEN max_idx + 1 ELSE 0,
                o |-> o]

\* [ret, o]: ret = -1 (a stream is missing), 0 (nothing premature) or the
\* number of packets to discard
prune_premature_packets(o) ==
    LET video_idx == find_first_packet_type_idx(o, VIDEO, 0)
        aidx(i) == find_first_packet_type_idx(o, AUDIO, i)
        mixes == 0..(num_audio_mixes - 1)
    IN IF video_idx = -1
       THEN [ret |-> -1, o |-> [o EXCEPT !.received_video = FALSE]]
       ELSE IF \E i \in mixes : aidx(i) = -1
       THEN [ret |-> -1, o |-> [o EXCEPT !.received_audio = FALSE]]
       ELSE LET video == PacketAt(o, video_idx)
                duration_usec ==
                    CDiv(video.timebase_num * 1000000, video.timebase_den)
                max_idx == Max({video_idx} \cup {aidx(i) : i \in mixes})
                \* 'diff' is what the last iteration of the loop left in it
                diff == IF num_audio_mixes = 0 THEN 0
                        ELSE PacketAt(o, aidx(num_audio_mixes - 1)).dts_usec
                             - video.dts_usec
            IN [ret |-> IF diff > duration_usec THEN max_idx + 1 ELSE 0,
                o |-> o]

discard_to_idx(o, idx) ==
    LET pk == o.interleaved_packets
    IN [o EXCEPT !.interleaved_packets = SubSeq(pk, idx + 1, Len(pk))]

\* [ok, o]
prune_interleaved_packets(o) ==
    LET r == prune_premature_packets(o)
        start_idx == IF r.ret # 0 THEN r.ret
                     ELSE get_interleaved_start_idx(r.o)
    IN IF r.ret = -1 THEN [ok |-> FALSE, o |-> r.o]
       ELSE [ok |-> TRUE,
             o |-> IF start_idx # 0 THEN discard_to_idx(r.o, start_idx)
                   ELSE r.o]

\* [ok, o]
get_audio_and_video_packets(o) ==
    LET video_idx == find_first_packet_type_idx(o, VIDEO, 0)
        o1 == IF video_idx = -1 THEN [o EXCEPT !.received_video = FALSE]
              ELSE o
        mixes == 0..(num_audio_mixes - 1)
    IN IF \E i \in mixes : find_first_packet_type_idx(o, AUDIO, i) = -1
       THEN [ok |-> FALSE, o |-> [o1 EXCEPT !.received_audio = FALSE]]
       ELSE [ok |-> video_idx # -1, o |-> o1]

\* set_offsets taking the video offset from the first video packet's dts
set_offsets_dts(o) ==
    LET video == PacketAt(o, find_first_packet_type_idx(o, VIDEO, 0))
        audio(i) == PacketAt(o, find_first_packet_type_idx(o, AUDIO, i))
        o1 == [o EXCEPT
                 !.video_offset = video.dts,
                 !.audio_offsets =
                     [i \in Tracks |-> IF i < num_audio_mixes THEN audio(i).dts
                                       ELSE @[i]],
                 !.highest_audio_ts =
                     IF num_audio_mixes > 0 THEN @ - audio(0).dts_usec ELSE @,
                 !.highest_video_ts = @ - video.dts_usec]
    IN [o1 EXCEPT !.interleaved_packets =
            [i \in 1..Len(@) |-> apply_interleaved_packet_offset(o1, @[i])]]

\* set_offsets storing the offsets and leaving the buffered packets as they
\* arrived
set_offsets_stored(o) ==
    LET video == PacketAt(o, find_first_packet_type_idx(o, VIDEO, 0))
        audio(i) == PacketAt(o, find_first_packet_type_idx(o, AUDIO, i))
    IN [o EXCEPT
          !.video_offset = video.pts,
          !.audio_offsets =
              [i \in Tracks |-> IF i < num_audio_mixes THEN audio(i).dts
                                ELSE @[i]],
          !.highest_audio_ts =
              IF num_audio_mixes > 0 THEN @ - audio(0).dts_usec ELSE @,
          !.highest_video_ts = @ - video.dts_usec]

\* the part of initialize_interleaved_packets after the packets were found
set_offsets(o) ==
    LET video == PacketAt(o, find_first_packet_type_idx(o, VIDEO, 0))
        audio(i) == PacketAt(o, find_first_packet_type_idx(o, AUDIO, i))
        o1 == [o EXCEPT
                 !.video_offset = video.pts,
                 !.audio_offsets =
                     [i \in Tracks |-> IF i < num_audio_mixes THEN audio(i).dts
                                       ELSE @[i]],
                 !.highest_audio_ts =
                     IF num_audio_mixes > 0 THEN @ - audio(0).dts_usec ELSE @,
                 !.highest_video_ts = @ - video.dts_usec]
    IN [o1 EXCEPT !.interleaved_packets =
            [i \in 1..Len(@) |-> apply_interleaved_packet_offset(o1, @[i])]]

\* initialize_interleaved_packets without its test for audio past the first
\* video packet
initialize_interleaved_packets_any_audio(o) ==
    LET g == get_audio_and_video_packets(o)
    IN IF ~g.ok THEN g
       ELSE LET start_idx == get_interleaved_start_idx(o)
                d == discard_to_idx(o, start_idx)
                g2 == get_audio_and_video_packets(d)
            IN IF start_idx # 0 /\ ~g2.ok THEN g2
               ELSE [ok |-> TRUE,
                     o |-> set_offsets(IF start_idx # 0 THEN d ELSE o)]

\* [ok, o]
initialize_interleaved_packets(o) ==
    LET g == get_audio_and_video_packets(o)
        mixes == 0..(num_audio_mixes - 1)
    IN IF ~g.ok THEN g
       ELSE LET video == PacketAt(o, find_first_packet_type_idx(o, VIDEO, 0))
                last_audio(i) ==
                    PacketAt(o, find_last_packet_type_idx(o, AUDIO, i))
            IN \* ensure that there is audio past the first video packet
               IF \E i \in mixes : last_audio(i).dts_usec < video.dts_usec
               THEN [ok |-> FALSE, o |-> [o EXCEPT !.received_audio = FALSE]]
               ELSE LET start_idx == get_interleaved_start_idx(o)
                        d == discard_to_idx(o, start_idx)
                        g2 == get_audio_and_video_packets(d)
                    IN IF start_idx # 0 /\ ~g2.ok THEN g2
                       ELSE [ok |-> TRUE,
                             o |-> set_offsets(IF start_idx # 0 THEN d ELSE o)]

InsertAt(s, idx, e) == SubSeq(s, 1, idx) \o <<e>> \o SubSeq(s, idx + 1, Len(s))

\* insert_interleaved_packet putting every packet at the end of the array
insert_interleaved_packet_last(pk, out) == Append(pk, out)

\* the packets with 'out' inserted at the index its loop stops at
insert_interleaved_packet(pk, out) ==
    LET stop == {i \in 1..Len(pk) :
                    \/ (out.dts_usec = pk[i].dts_usec /\ out.type = VIDEO)
                    \/ out.dts_usec < pk[i].dts_usec}
        idx == IF stop = {} THEN Len(pk) ELSE Min(stop) - 1
    IN InsertAt(pk, idx, out)

RECURSIVE resort_from(_, _)
resort_from(old_array, new_array) ==
    IF old_array = <<>> THEN new_array
    ELSE resort_from(Tail(old_array),
                     insert_interleaved_packet(new_array, Head(old_array)))

resort_interleaved_packets(o) ==
    [o EXCEPT !.interleaved_packets = resort_from(@, <<>>)]

discard_unused_audio_packets(o, dts_usec) ==
    LET pk == o.interleaved_packets
        S == {i \in 1..Len(pk) : pk[i].dts_usec >= dts_usec}
        idx == IF S = {} THEN Len(pk) ELSE Min(S) - 1
    IN IF idx # 0 THEN discard_to_idx(o, idx) ELSE o

\* interleave_packets sending whatever prune_interleaved_packets and
\* initialize_interleaved_packets return
interleave_packets_unchecked(o, packet) ==
    IF ~o.received_video /\ packet.type = VIDEO /\ ~packet.keyframe
    THEN discard_unused_audio_packets(o, packet.dts_usec)
    ELSE
    LET was_started == o.received_audio /\ o.received_video
        out == IF was_started THEN apply_interleaved_packet_offset(o, packet)
               ELSE packet
        o1 == IF was_started THEN o ELSE check_received(o, packet)
        o2 == [o1 EXCEPT !.interleaved_packets =
                            insert_interleaved_packet(@, out)]
        o3 == set_higher_ts(o2, out)
    IN IF was_started THEN send_interleaved(o3)
       ELSE LET p == prune_interleaved_packets(o3)
                i == initialize_interleaved_packets(p.o)
                r == IF ~p.ok THEN p.o
                     ELSE IF ~i.ok THEN i.o
                     ELSE resort_interleaved_packets(i.o)
            IN IF r.interleaved_packets = <<>> THEN r
               ELSE send_interleaved(r)

\* the handler under interleaved_mutex, on an active output
interleave_packets(o, packet) ==
    IF ~o.received_video /\ packet.type = VIDEO /\ ~packet.keyframe
    THEN \* if first video frame is not a keyframe, discard until received
         discard_unused_audio_packets(o, packet.dts_usec)
    ELSE
    LET was_started == o.received_audio /\ o.received_video
        out == IF was_started THEN apply_interleaved_packet_offset(o, packet)
               ELSE packet
        o1 == IF was_started THEN o ELSE check_received(o, packet)
        o2 == [o1 EXCEPT !.interleaved_packets =
                            insert_interleaved_packet(@, out)]
        o3 == set_higher_ts(o2, out)
    IN IF ~(o3.received_audio /\ o3.received_video) THEN o3
       ELSE IF was_started THEN send_interleaved(o3)
       ELSE LET p == prune_interleaved_packets(o3)
                i == initialize_interleaved_packets(p.o)
            IN IF ~p.ok THEN p.o
               ELSE IF ~i.ok THEN i.o
               ELSE send_interleaved(resort_interleaved_packets(i.o))

\* ---------------------------------------------------------------- actions

NewPacket(type, track, dts, key) ==
    LET p == [type |-> type, track_idx |-> track,
              dts |-> dts,
              pts |-> IF type = VIDEO THEN dts + env.pts_delay ELSE dts,
              timebase_num |-> 1,
              timebase_den |-> IF type = VIDEO THEN env.video_den
                               ELSE env.audio_den,
              keyframe |-> key, dts_usec |-> 0,
              priority |-> IF type = VIDEO THEN env.priority[key] ELSE 0,
              seq |-> npackets + 1]
    IN [p EXCEPT !.dts_usec = packet_dts_usec(p)]

\* interleave_packets returns at once unless the output is active
Feed(packet) ==
    \E o \in {interleave_packets(Output, packet)} :
       /\ output.active
       /\ interleaved_packets' = o.interleaved_packets
       /\ received_video' = o.received_video
       /\ received_audio' = o.received_audio
       /\ highest_video_ts' = o.highest_video_ts
       /\ highest_audio_ts' = o.highest_audio_ts
       /\ video_offset' = o.video_offset
       /\ audio_offsets' = o.audio_offsets
       /\ total_frames' = o.total_frames
       /\ caption' = o.caption
       /\ sent' = o.sent
       /\ fed' = Append(fed, packet)
       /\ npackets' = npackets + 1

\* the video encoder opens one group of pictures during the run: no keyframe
\* follows the first one
Keyframes ==
    IF \E i \in 1..Len(fed) : fed[i].type = VIDEO /\ fed[i].keyframe
    THEN {FALSE}
    ELSE IF env.key_first THEN {TRUE} ELSE BOOLEAN

\* the video encoder's thread calls the encoded callback
VideoPacket ==
    /\ npackets < MaxPackets
    /\ \E step \in env.video_steps, key \in Keyframes :
         LET dts == enc_dts.video + step
         IN /\ Feed(NewPacket(VIDEO, 0, dts, key))
            /\ enc_dts' = [enc_dts EXCEPT !.video = dts]
    /\ UNCHANGED <<env, lcVars, services, mutexes, pc>>

\* an audio encoder's thread calls the encoded callback
AudioPacket ==
    /\ npackets < MaxPackets
    /\ \E track \in 0..(env.num_mixes - 1), step \in env.audio_steps :
         LET dts == enc_dts.audio[track] + step
         IN /\ Feed(NewPacket(AUDIO, track, dts, TRUE))
            /\ enc_dts' = [enc_dts EXCEPT !.audio[track] = dts]
    /\ UNCHANGED <<env, lcVars, services, mutexes, pc>>

\* the state reset_packet_data leaves when the capture is hooked
InitPackets(encoders) ==
    /\ interleaved_packets = <<>>
    /\ received_video = FALSE
    /\ received_audio = FALSE
    /\ highest_video_ts = 0
    /\ highest_audio_ts = 0
    /\ video_offset = 0
    /\ audio_offsets = [i \in Tracks |-> 0]
    /\ total_frames = 0
    /\ env \in encoders
    /\ enc_dts = [video |-> env.video_start,
                  audio |-> [i \in Tracks |-> env.audio_start[i + 1]]]
    /\ npackets = 0
    /\ sent = <<>>
    /\ fed = <<>>
    /\ caption = NoCaptions
    /\ services = NoServices
    /\ mutexes = NoMutexes

NextIL == VideoPacket \/ AudioPacket

\* ------------------------------------------------- interleaver properties

SentIdx(type, track) ==
    {i \in 1..Len(sent) : sent[i].type = type /\ sent[i].track_idx = track}

FedIdx(type, track) ==
    {i \in 1..Len(fed) : fed[i].type = type /\ fed[i].track_idx = track}

AudioTracks == 0..(env.num_mixes - 1)

\* C1: the dts_usec of the packets handed to encoded_packet is non-decreasing
\* across all tracks (every track's fed dts increases in SpecILStrict)
MonotoneEmission ==
    \A i, j \in 1..Len(sent) : i < j => sent[i].dts_usec <= sent[j].dts_usec

\* C2: a packet is delivered only after a video packet and a packet of every
\* audio track were received, and only while received_video and
\* received_audio are both set
NoEmissionBeforeAllReceived ==
    sent # <<>> =>
        /\ received_video /\ received_audio
        /\ FedIdx(VIDEO, 0) # {}
        /\ \A t \in AudioTracks : FedIdx(AUDIO, t) # {}

\* packets of a two-track output were delivered after one of the tracks had
\* kept the others waiting
TwoTracksDelivered ==
    /\ env.num_mixes = 2
    /\ sent # <<>>
    /\ \E t \in AudioTracks : Min(FedIdx(AUDIO, t)) >= 4

\* C3: an audio packet and a video packet with identical dts_usec are
\* delivered video first
VideoFirstTieBreak ==
    \A i, j \in 1..Len(sent) :
        (sent[i].type = AUDIO /\ sent[j].type = VIDEO
         /\ sent[i].dts_usec = sent[j].dts_usec) => j < i

FirstVideoIsKeyframe ==
    SentIdx(VIDEO, 0) # {} => sent[Min(SentIdx(VIDEO, 0))].keyframe

\* C6: the packets of one track are delivered in the order in which they
\* were received
TrackOrderPreserved ==
    \A i, j \in 1..Len(sent) :
        (i < j /\ sent[i].type = sent[j].type
         /\ sent[i].track_idx = sent[j].track_idx) => sent[i].seq < sent[j].seq

\* -------------------------------------------------------------- lifecycle

MaxConnects == 2
MaxStops == 1
NumThreads == 2

Threads == 1..NumThreads

SUCCESS == "OBS_OUTPUT_SUCCESS"
DISCONNECTED == "OBS_OUTPUT_DISCONNECTED"
CONNECT_FAILED == "OBS_OUTPUT_CONNECT_FAILED"
ERROR == "OBS_OUTPUT_ERROR"
StopCodes == {SUCCESS, DISCONNECTED, CONNECT_FAILED, ERROR}

RECONNECT_RETRY_MAX_MSEC == 15 * 60 * 1000

\* reconnect_retry_exp in hundredths: RECONNECT_RETRY_BASE_EXP plus a jitter
\* below 0.05
RetryExps == {150, 154}

\* arguments <<retry_count, retry_sec>> of obs_output_set_reconnect_settings,
\* which stores any int
ReconnectSettings ==
    {<<3, 2>>, <<0, 2>>, <<-1, 2>>, <<1, 0>>, <<3, 600>>, <<2, 901>>}

SignalNames == {"starting", "activate", "start", "stopping", "deactivate",
                "stop", "reconnect", "reconnect_success", "pause", "unpause"}

\* info.flags
ENCODED == "OBS_OUTPUT_ENCODED"
SERVICE == "OBS_OUTPUT_SERVICE"
CAN_PAUSE == "OBS_OUTPUT_CAN_PAUSE"

DelaySecs == {0, 1}

\* the output and what the handlers leave behind them
World == [output |-> output, sink |-> sink, signals |-> <<>>,
          calls |-> <<>>, delays |-> delays, ret |-> FALSE]

Return(w, value) == [w EXCEPT !.ret = value]

encoded(w) == ENCODED \in w.output.flags

active(w) == w.output.active
reconnecting(w) == w.output.reconnecting
stopping(w) == ~w.output.stopping_event
delay_active(w) == w.output.delay_active
delay_capturing(w) == w.output.delay_capturing
data_active(w) == w.output.data_active
data_capture_ending(w) == w.output.end_data_capture_thread_active

Call(w, name) == [w EXCEPT !.calls = Append(@, name)]

\* the handlers run inside the call: active is what a handler reads in
\* output->active while it runs
Signal(w, name, code, timeout_sec) ==
    [w EXCEPT !.signals = Append(@, [signal |-> name, code |-> code,
                                     timeout_sec |-> timeout_sec,
                                     active |-> w.output.active])]

do_output_signal(w, name) == Signal(w, name, "", 0)

signal_start(w) == do_output_signal(w, "start")

signal_reconnect(w) ==
    Signal(w, "reconnect", "",
           CDiv(w.output.reconnect_retry_cur_msec, 1000))

signal_reconnect_success(w) == do_output_signal(w, "reconnect_success")

signal_stop(w) == Signal(w, "stop", w.output.stop_code, 0)

\* the delay buffer is released: no delay is in force any more
obs_output_cleanup_delay(w) == [w EXCEPT !.output.active_delay_ns = 0]

\* the worker obs_output_end_data_capture_internal starts
end_data_capture_thread(w) ==
    LET w1 == IF w.output.active_delay_ns # 0
              THEN obs_output_cleanup_delay(w) ELSE w
    IN [do_output_signal(w1, "deactivate") EXCEPT
            !.output.active = FALSE,
            !.output.stopping_event = TRUE,
            !.output.end_data_capture_thread_active = FALSE]

\* pthread_create is taken to succeed
\* obs_output_end_data_capture_internal tearing the capture down whatever
\* delay_restart_refs holds
end_data_capture_internal_no_refs(w, signal) ==
    LET w0 == Call(w, IF signal THEN "obs_output_end_data_capture"
                      ELSE "obs_output_end_data_capture_internal(false)")
    IN IF ~active(w0) \/ ~data_active(w0)
       THEN IF signal
            THEN [signal_stop(w0) EXCEPT !.output.stop_code = SUCCESS,
                                         !.output.stopping_event = TRUE]
            ELSE w0
       ELSE LET w1 == [w0 EXCEPT
                         !.output.delay_capturing =
                             IF delay_active(w0) THEN FALSE ELSE @,
                         !.output.delay_active = FALSE,
                         !.output.data_active = FALSE]
                w2 == IF data_capture_ending(w1)
                      THEN end_data_capture_thread(w1) ELSE w1
                w3 == [w2 EXCEPT
                         !.output.end_data_capture_thread_active = TRUE]
            IN IF signal
               THEN [signal_stop(w3) EXCEPT !.output.stop_code = SUCCESS]
               ELSE w3

obs_output_end_data_capture_internal(w, signal) ==
    LET w0 == Call(w, IF signal THEN "obs_output_end_data_capture"
                      ELSE "obs_output_end_data_capture_internal(false)")
    IN IF ~active(w0) \/ ~data_active(w0)
       THEN IF signal
            THEN [signal_stop(w0) EXCEPT !.output.stop_code = SUCCESS,
                                         !.output.stopping_event = TRUE]
            ELSE w0
       ELSE IF delay_active(w0) /\ w0.output.delay_restart_refs # 0
       THEN [w0 EXCEPT !.output.delay_capturing = FALSE,
                       !.output.stopping_event = TRUE]
       ELSE LET w1 == [w0 EXCEPT
                         !.output.delay_capturing =
                             IF delay_active(w0) THEN FALSE ELSE @,
                         !.output.delay_active = FALSE,
                         !.output.data_active = FALSE]
                \* pthread_join of a worker that is still running
                w2 == IF data_capture_ending(w1)
                      THEN end_data_capture_thread(w1) ELSE w1
                w3 == [w2 EXCEPT
                         !.output.end_data_capture_thread_active = TRUE]
            IN IF signal
               THEN [signal_stop(w3) EXCEPT !.output.stop_code = SUCCESS]
               ELSE w3

obs_output_end_data_capture(w) == obs_output_end_data_capture_internal(w, TRUE)

\* the backoff applied whatever reconnect_retries is
next_retry_msec_always(o) ==
    LET mul == (o.reconnect_retry_cur_msec * o.reconnect_retry_exp) \div 100
    IN IF mul > RECONNECT_RETRY_MAX_MSEC THEN RECONNECT_RETRY_MAX_MSEC
       ELSE mul

\* the delay of the attempt being scheduled: (uint32_t)(cur * exp), capped,
\* from the second attempt on
next_retry_msec(o) ==
    LET mul == (o.reconnect_retry_cur_msec * o.reconnect_retry_exp) \div 100
    IN IF o.reconnect_retries = 0 THEN o.reconnect_retry_cur_msec
       ELSE IF mul > RECONNECT_RETRY_MAX_MSEC THEN RECONNECT_RETRY_MAX_MSEC
       ELSE mul

\* pthread_create is taken to succeed; the worker sets reconnect_thread_active
\* as its first step
output_reconnect(w) ==
    LET w0 == Call(w, "output_reconnect")
        w1 == IF ~reconnecting(w0)
              THEN [w0 EXCEPT
                      !.output.reconnect_retry_cur_msec =
                          w0.output.reconnect_retry_sec * 1000,
                      !.output.reconnect_retries = 0,
                      !.delays = <<>>]
              ELSE w0
    IN IF w1.output.reconnect_retries >= w1.output.reconnect_retry_max
       THEN obs_output_end_data_capture(
                [w1 EXCEPT !.output.stop_code = DISCONNECTED,
                           !.output.reconnecting = FALSE,
                           !.output.delay_active = FALSE])
       ELSE LET w2 == IF ~reconnecting(w1)
                      THEN [w1 EXCEPT !.output.reconnecting = TRUE,
                                      !.output.reconnect_stop_event = FALSE]
                      ELSE w1
                msec == next_retry_msec(w2.output)
                w3 == [w2 EXCEPT
                         !.output.reconnect_retry_cur_msec = msec,
                         !.output.reconnect_retries = @ + 1,
                         !.output.stop_code = DISCONNECTED,
                         !.output.reconnect_thread_active = TRUE,
                         !.delays = Append(@, msec)]
            IN signal_reconnect(w3)

\* can_reconnect without the test of the code while reconnecting
can_reconnect_any_code(w, code) ==
    LET reconnect_active == w.output.reconnect_retry_max # 0
    IN \/ reconnecting(w)
       \/ (reconnect_active /\ code = DISCONNECTED)

can_reconnect(w, code) ==
    LET reconnect_active == w.output.reconnect_retry_max # 0
    IN \/ (reconnecting(w) /\ code # SUCCESS)
       \/ (reconnect_active /\ code = DISCONNECTED)

obs_output_signal_stop(w, code) ==
    LET w1 == [w EXCEPT !.output.stop_code = code]
    IN IF can_reconnect(w1, code)
       THEN output_reconnect(
                obs_output_end_data_capture_internal(
                    [w1 EXCEPT !.output.delay_restart_refs =
                                   IF delay_active(w1) THEN @ + 1 ELSE @],
                    FALSE))
       ELSE obs_output_end_data_capture(
                [w1 EXCEPT !.output.delay_active = FALSE])

\* after os_event_wait(stopping_event) has returned; info.start succeeds or
\* not, and a sink that started is connecting
obs_output_actual_start(w, success) ==
    LET w0 == [w EXCEPT !.output.stop_code = SUCCESS]
        w1 == IF w0.output.context_data
              THEN Return([Call(w0, "info.start") EXCEPT
                              !.sink = IF success THEN "connecting" ELSE @],
                          success)
              ELSE Return(w0, FALSE)
    IN [w1 EXCEPT !.output.delay_restart_refs = IF @ # 0 THEN @ - 1 ELSE @]

\* begin_delayed_capture without its test of delay_capturing
begin_delayed_capture_again(w) ==
    LET w1 == Return([w EXCEPT !.output.delay_capturing = TRUE], TRUE)
    IN IF reconnecting(w1)
       THEN [signal_reconnect_success(w1) EXCEPT
                !.output.reconnecting = FALSE]
       ELSE signal_start(w1)

begin_delayed_capture(w) ==
    IF delay_capturing(w) THEN Return(w, FALSE)
    ELSE LET w1 == Return([w EXCEPT !.output.delay_capturing = TRUE], TRUE)
         IN IF reconnecting(w1)
            THEN [signal_reconnect_success(w1) EXCEPT
                     !.output.reconnecting = FALSE]
            ELSE signal_start(w1)

\* the delay part of hook_data_capture
hook_data_capture(w) ==
    IF encoded(w) /\ w.output.delay_sec # 0
    THEN [w EXCEPT !.output.active_delay_ns = w.output.delay_sec * 1000000000,
                   !.output.delay_active = TRUE]
    ELSE w

\* ts_start and ts_end are cleared for the next cycle
pause_reset(pause) == [pause EXCEPT !.ts_start = 0, !.ts_end = 0]

\* the audio format is the one the output was created with
reset_raw_output(w) ==
    [w EXCEPT !.output.audio_buffer = 0,
              !.output.total_audio_frames = 0,
              !.output.audio_start_ts = 0,
              !.output.video_start_ts = 0,
              !.output.pause = pause_reset(@)]

\* can_begin_data_capture holds: the encoders are bound and initialized
obs_output_begin_data_capture(w) ==
    IF delay_active(w) THEN begin_delayed_capture(w)
    ELSE IF active(w) THEN Return(w, FALSE)
    ELSE LET w0 == IF ~encoded(w) THEN reset_raw_output(w) ELSE w
             w1 == hook_data_capture(
                       Return([w0 EXCEPT !.output.data_active = TRUE], TRUE))
             w2 == [do_output_signal(w1, "activate") EXCEPT
                       !.output.active = TRUE]
         IN IF reconnecting(w2)
            THEN [signal_reconnect_success(w2) EXCEPT
                     !.output.reconnecting = FALSE]
            ELSE IF delay_active(w2) THEN do_output_signal(w2, "starting")
            ELSE signal_start(w2)

\* the delayed start: data capture begins at once with the delay buffer as
\* the callback, and the sink is started
obs_output_delay_start(w, success) ==
    obs_output_actual_start(obs_output_begin_data_capture(w), success)

\* service_ok: obs_service_initialize accepts; success: info.start succeeds
obs_output_start(w, service_ok, success) ==
    IF ~w.output.context_data THEN Return(w, FALSE)
    ELSE IF SERVICE \in w.output.flags /\ ~service_ok THEN Return(w, FALSE)
    ELSE IF encoded(w) /\ w.output.delay_sec # 0
    THEN obs_output_delay_start(w, success)
    ELSE IF success
    THEN Return(do_output_signal(obs_output_actual_start(w, TRUE), "starting"),
                TRUE)
    ELSE obs_output_actual_start(w, FALSE)

\* the reconnect worker woken by reconnect_stop_event: it does not start the
\* output and clears reconnecting
reconnect_thread_cancelled(w) ==
    [w EXCEPT !.output.reconnecting = FALSE,
              !.output.reconnect_thread_active = FALSE]

\* the reconnect worker after its wait has timed out (reconnect_stop_event is
\* not signalled, so it detaches)
reconnect_thread(w, success) ==
    [obs_output_actual_start(w, success) EXCEPT
        !.output.reconnect_thread_active = FALSE]

\* obs->video.video_frame_interval_ns at 30 frames per second
video_frame_interval_ns == 33333333

end_pause(pause, ts) ==
    IF pause.ts_end = 0
    THEN [pause EXCEPT !.ts_end = ts,
                       !.ts_offset = @ + (ts - pause.ts_start)]
    ELSE pause

\* a quantization that adds one frame interval rather than two
get_closest_v_ts_one_interval(pause, now) ==
    LET interval == video_frame_interval_ns
    IN pause.last_video_ts
       + ((now - pause.last_video_ts + interval) \div interval) * interval

\* now: os_gettime_ns(), not before the last video frame, so that the
\* unsigned difference does not wrap
get_closest_v_ts(pause, now) ==
    LET interval == video_frame_interval_ns
        i2 == interval * 2
    IN pause.last_video_ts
       + ((now - pause.last_video_ts + i2) \div interval) * interval

\* a begin test that forgets the pause that is open
pause_can_start_open(pause) == pause.ts_end = 0

pause_can_start(pause) == pause.ts_start = 0 /\ pause.ts_end = 0

pause_can_stop(pause) == pause.ts_start # 0 /\ pause.ts_end = 0

encoder_begin_pause(e, ts) ==
    [e EXCEPT !.paused = TRUE, !.pause.ts_start = ts]

encoder_end_pause(e, ts) ==
    [e EXCEPT !.paused = FALSE, !.pause = end_pause(@, ts)]

pause_can(pause_state, pause) ==
    IF pause THEN pause_can_start(pause_state) ELSE pause_can_stop(pause_state)

\* a test that looks at the video encoder alone
encoded_pause_allowed_video(w, pause) ==
    pause_can(w.output.video_encoder.pause, pause)

\* the tests before the first change; DOMAIN audio_encoders is the set of
\* bound mixes
encoded_pause_allowed(w, pause) ==
    /\ pause_can(w.output.video_encoder.pause, pause)
    /\ \A i \in DOMAIN w.output.audio_encoders :
          pause_can(w.output.audio_encoders[i].pause, pause)

encoded_pause_video(w, pause, closest_v_ts) ==
    [w EXCEPT !.output.video_encoder =
                  IF pause THEN encoder_begin_pause(@, closest_v_ts)
                  ELSE encoder_end_pause(@, closest_v_ts)]

encoded_pause_audio(w, pause, closest_v_ts) ==
    LET aenc == w.output.audio_encoders
    IN [w EXCEPT !.output.audio_encoders =
                     [i \in DOMAIN aenc |->
                         IF pause
                         THEN encoder_begin_pause(aenc[i], closest_v_ts)
                         ELSE encoder_end_pause(aenc[i], closest_v_ts)]]

\* under the pause mutexes of the video encoder and of every bound audio
\* encoder
obs_encoded_output_pause(w, pause, now) ==
    LET closest_v_ts == get_closest_v_ts(w.output.video_encoder.pause, now)
    IN IF ~encoded_pause_allowed(w, pause) THEN Return(w, FALSE)
       ELSE Return(encoded_pause_audio(
                       encoded_pause_video(w, pause, closest_v_ts),
                       pause, closest_v_ts),
                   TRUE)

\* under output->pause.mutex
obs_raw_output_pause(w, pause, now) ==
    LET closest_v_ts == get_closest_v_ts(w.output.pause, now)
    IN IF pause
       THEN IF pause_can_start(w.output.pause)
            THEN Return([w EXCEPT !.output.pause.ts_start = closest_v_ts],
                        TRUE)
            ELSE Return(w, FALSE)
       ELSE IF pause_can_stop(w.output.pause)
            THEN Return([w EXCEPT
                           !.output.pause = end_pause(@, closest_v_ts)],
                        TRUE)
            ELSE Return(w, FALSE)

\* obs_output_pause once it has read output->paused
pause_dispatch(w, pause, now) ==
    IF encoded(w) THEN obs_encoded_output_pause(w, pause, now)
    ELSE obs_raw_output_pause(w, pause, now)

\* os_atomic_set_bool(&output->paused, pause)
pause_set_paused(w, pause) == [w EXCEPT !.output.paused = pause]

pause_signal(w, pause) ==
    do_output_signal(w, IF pause THEN "pause" ELSE "unpause")

\* the end of obs_output_pause after a successful pause or resume
pause_publish(w, pause) == pause_signal(pause_set_paused(w, pause), pause)

obs_output_pause(w, pause, now) ==
    IF CAN_PAUSE \notin w.output.flags THEN Return(w, FALSE)
    ELSE IF ~active(w) THEN Return(w, FALSE)
    ELSE IF w.output.paused = pause THEN Return(w, TRUE)
    ELSE LET r == pause_dispatch(w, pause, now)
         IN IF r.ret THEN pause_publish(r, pause) ELSE r

\* ------------------------------------------------------ raw frame callbacks

\* whether a frame at this timestamp falls into the pause: an open pause has
\* no end yet
pause_check(pause, timestamp) ==
    /\ pause.ts_start # 0
    /\ pause.ts_start <= timestamp
    /\ (pause.ts_end = 0 \/ timestamp <= pause.ts_end)

\* the pause state remembers the timestamp of the last video frame
video_pause_check(pause, timestamp) ==
    [pause |-> [pause EXCEPT !.last_video_ts = timestamp],
     skip |-> pause_check(pause, timestamp)]

audio_pause_check(pause, data, sample_rate) ==
    pause_check(pause, data.timestamp)

AUDIO_OUTPUT_FRAMES == 1024

\* util_mul_div64(frames, 1000000000, sample_rate): the rate divides 10^9, so
\* the 64-bit quotient is frames times the whole nanoseconds of one frame
audio_frames_to_ns(sample_rate, frames) ==
    frames * (1000000000 \div sample_rate)

\* util_mul_div64(ns, sample_rate, 1000000000) for such a rate
ns_to_audio_frames(sample_rate, ns) == ns \div (1000000000 \div sample_rate)

\* r: the output with the frames its sink received (sent) and the audio that
\* entered its buffer (fed). A frame is logged with the timestamp its source
\* gave it (raw_ts) and the pause offset at the time it was handed on.
Deliver(r, type, timestamp, raw_ts) ==
    [r EXCEPT !.sent = Append(@, [type |-> type, timestamp |-> timestamp,
                                  raw_ts |-> raw_ts,
                                  ts_offset |-> r.output.pause.ts_offset])]

\* the source's timestamp of audio frame number n of the buffered audio
RECURSIVE AudioRawTs(_, _, _)
AudioRawTs(chunks, n, sample_rate) ==
    IF n < Head(chunks).frames
    THEN Head(chunks).timestamp + audio_frames_to_ns(sample_rate, n)
    ELSE AudioRawTs(Tail(chunks), n - Head(chunks).frames, sample_rate)

default_raw_video_callback(r, frame) ==
    LET c == video_pause_check(r.output.pause, frame.timestamp)
        r1 == [r EXCEPT !.output.pause = c.pause]
    IN IF c.skip THEN r1
       ELSE [(IF r1.output.data_active
              THEN Deliver(r1, VIDEO, frame.timestamp, frame.timestamp)
              ELSE r1)
             EXCEPT !.total_frames = @ + 1]

\* prepare_audio: ok is its result, data the audio it hands on
prepare_audio(r, old) ==
    LET r1 == IF r.output.video_start_ts = 0
              THEN [r EXCEPT !.output.video_start_ts =
                                 r.output.pause.last_video_ts]
              ELSE r
        video_start_ts == r1.output.video_start_ts
        duration == audio_frames_to_ns(r.output.sample_rate, old.frames)
        end_ts == old.timestamp + duration
        cutoff == video_start_ts - old.timestamp
    IN IF video_start_ts = 0 THEN [r |-> r1, ok |-> FALSE, data |-> old]
       ELSE IF old.timestamp >= video_start_ts
       THEN [r |-> r1, ok |-> TRUE, data |-> old]
       ELSE IF end_ts <= video_start_ts
       THEN [r |-> r1, ok |-> FALSE, data |-> old]
       ELSE [r |-> r1, ok |-> TRUE,
             data |-> [timestamp |-> old.timestamp + cutoff,
                       frames |-> old.frames
                           - ns_to_audio_frames(r.output.sample_rate,
                                                cutoff)]]

\* the loop of default_raw_audio_callback that hands whole frames to the sink
RECURSIVE pop_audio_frames(_)
pop_audio_frames(r) ==
    IF r.output.audio_buffer > AUDIO_OUTPUT_FRAMES
    THEN LET timestamp == r.output.audio_start_ts
                          + audio_frames_to_ns(r.output.sample_rate,
                                               r.output.total_audio_frames)
                          + r.output.pause.ts_offset
         IN pop_audio_frames(
                [Deliver(r, AUDIO, timestamp,
                         AudioRawTs(r.fed, r.output.total_audio_frames,
                                    r.output.sample_rate))
                 EXCEPT !.output.audio_buffer = @ - AUDIO_OUTPUT_FRAMES,
                        !.output.total_audio_frames =
                            @ + AUDIO_OUTPUT_FRAMES])
    ELSE r

\* one mix, one plane: the buffer is counted in audio frames
default_raw_audio_callback(r, in) ==
    IF ~r.output.data_active THEN r
    ELSE LET p == prepare_audio(r, in)
         IN IF ~p.ok THEN p.r
            ELSE IF audio_pause_check(p.r.output.pause, p.data,
                                      p.r.output.sample_rate)
            THEN p.r
            ELSE pop_audio_frames(
                     [p.r EXCEPT
                        !.output.audio_start_ts =
                            IF @ = 0 THEN p.data.timestamp ELSE @,
                        !.output.audio_buffer = @ + p.data.frames,
                        !.fed = Append(@, p.data)])

\* the sink's stop: the sink winds down and reports the end later
info_stop(w, ts) ==
    [Call(w, IF ts = 0 THEN "info.stop(ts = 0)" ELSE "info.stop(ts = now)")
     EXCEPT !.sink = "stopping"]

\* obs_output_actual_stop after its test of stopping(output): the output is
\* resumed, stopping_event is reset and the rest follows; now is the clock
\* obs_output_pause reads; captions are left out
\* obs_output_actual_stop once the reconnect worker is out of the way
actual_stop_finish(w2, force, ts, was_reconnecting) ==
    LET call_stop == IF force /\ delay_active(w2) THEN delay_capturing(w2)
                     ELSE TRUE
        w3 == IF force /\ delay_active(w2)
              THEN [obs_output_end_data_capture(
                        [w2 EXCEPT !.output.delay_active = FALSE,
                                   !.output.delay_capturing = FALSE,
                                   !.output.stop_code = SUCCESS])
                    EXCEPT !.output.stopping_event = TRUE]
              ELSE w2
    IN IF w3.output.context_data /\ call_stop THEN info_stop(w3, ts)
       ELSE IF was_reconnecting
       THEN [signal_stop([w3 EXCEPT !.output.stop_code = SUCCESS])
             EXCEPT !.output.stopping_event = TRUE]
       ELSE w3

actual_stop_reset(w, force, ts, now) ==
    LET w0 == obs_output_pause(w, FALSE, now)
        w1 == [w0 EXCEPT !.output.stopping_event = FALSE]
        was_reconnecting == reconnecting(w1) /\ ~delay_active(w1)
        w2 == IF ~reconnecting(w1) THEN w1
              ELSE LET e == [w1 EXCEPT !.output.reconnect_stop_event = TRUE]
                   IN \* pthread_join
                      IF e.output.reconnect_thread_active
                      THEN reconnect_thread_cancelled(e) ELSE e
    IN actual_stop_finish(w2, force, ts, was_reconnecting)

obs_output_actual_stop(w, force, ts, now) ==
    IF stopping(w) /\ ~force THEN w
    ELSE actual_stop_reset(w, force, ts, now)

obs_output_force_stop(w, now) ==
    LET w1 == IF ~stopping(w)
              THEN do_output_signal([w EXCEPT !.output.stop_code = SUCCESS],
                                    "stopping")
              ELSE w
    IN obs_output_actual_stop(w1, TRUE, 0, now)

\* the delayed stop is queued in the delay buffer
obs_output_delay_stop(w) == Call(w, "obs_output_delay_stop")

\* obs_output_stop without its test of stopping(output)
obs_output_stop_untested(w, now) ==
    IF ~w.output.context_data THEN w
    ELSE IF ~active(w) /\ ~reconnecting(w) THEN w
    ELSE IF reconnecting(w) THEN obs_output_force_stop(w, now)
    ELSE IF encoded(w) /\ w.output.active_delay_ns # 0
    THEN obs_output_delay_stop(w)
    ELSE obs_output_actual_stop(do_output_signal(w, "stopping"), FALSE, now,
                                now)

\* now: os_gettime_ns(), which is also the ts handed to the sink's stop
obs_output_stop(w, now) ==
    IF ~w.output.context_data THEN w
    ELSE IF ~active(w) /\ ~reconnecting(w) THEN w
    ELSE IF reconnecting(w) THEN obs_output_force_stop(w, now)
    ELSE IF encoded(w) /\ w.output.active_delay_ns # 0
    THEN obs_output_delay_stop(w)
    ELSE IF ~stopping(w)
    THEN obs_output_actual_stop(do_output_signal(w, "stopping"), FALSE, now,
                                now)
    ELSE w

obs_output_set_reconnect_settings(w, retry_count, retry_sec) ==
    [w EXCEPT !.output.reconnect_retry_max = retry_count,
              !.output.reconnect_retry_sec = retry_sec]

\* samples per second of the audio the output receives; it divides 10^9
SampleRate == 32000

\* mutex: the thread that holds the pause mutex, 0 when it is free
pause_data == [ts_start |-> 0, ts_end |-> 0, ts_offset |-> 0,
               last_video_ts |-> 0, mutex |-> 0]

\* an encoder as obs_encoded_output_pause sees it
obs_encoder == [paused |-> FALSE, pause |-> pause_data]

\* obs_output_create, with the delay the front end configured and the encoders
\* it bound; info: the sink's flags and whether its create returned data
obs_output_create(info, exp, delay_sec) ==
    [flags |-> info.flags, context_data |-> info.data,
     paused |-> FALSE, pause |-> pause_data,
     sample_rate |-> SampleRate, audio_buffer |-> 0,
     total_audio_frames |-> 0, audio_start_ts |-> 0, video_start_ts |-> 0,
     video_encoder |-> obs_encoder,
     audio_encoders |-> [i \in 0..info.mixes - 1 |-> obs_encoder],
     active |-> FALSE, data_active |-> FALSE, reconnecting |-> FALSE,
     delay_active |-> FALSE, delay_capturing |-> FALSE,
     stopping_event |-> TRUE, reconnect_stop_event |-> FALSE,
     stop_code |-> SUCCESS,
     reconnect_retries |-> 0, reconnect_retry_cur_msec |-> 0,
     reconnect_retry_sec |-> 2, reconnect_retry_max |-> 20,
     reconnect_retry_exp |-> exp,
     delay_restart_refs |-> 0, delay_sec |-> delay_sec,
     active_delay_ns |-> 0,
     reconnect_thread_active |-> FALSE,
     end_data_capture_thread_active |-> FALSE,
     refs |-> 1, freed |-> FALSE]

\* ------------------------------------------------------- lifecycle actions

Count(name) == emitted[name]

\* times the sink began to receive data in this session
Connects == Count("start") + Count("reconnect_success")

Emitted(w, name) ==
    Cardinality({i \in 1..Len(w.signals) : w.signals[i].signal = name})

Commit(w, op, code) ==
    /\ output' = w.output
    /\ sink' = w.sink
    /\ signals' = w.signals
    /\ calls' = w.calls
    /\ delays' = w.delays
    /\ last' = [op |-> op, code |-> code, pre |-> output, ret |-> w.ret]
    /\ emitted' = [n \in SignalNames |-> emitted[n] + Emitted(w, n)]
    /\ stops' = IF op \in {"obs_output_stop", "obs_output_force_stop"}
                THEN stops + 1 ELSE stops
    /\ UNCHANGED <<ilVars, exVars, pc>>

\* the front end configures reconnecting before it starts the output
SetReconnectSettings ==
    /\ last.op = "obs_output_create"
    /\ \E args \in ReconnectSettings :
         Commit(obs_output_set_reconnect_settings(World, args[1], args[2]),
                "obs_output_set_reconnect_settings", "")

\* the front end starts the output it has configured: the model follows the
\* output through one start
Start ==
    /\ last.op = "obs_output_set_reconnect_settings"
    /\ \E success \in BOOLEAN :
         Commit(obs_output_start(World, TRUE, success), "obs_output_start",
                "")

\* the sink has connected and asks for data
SinkConnected ==
    /\ sink = "connecting"
    /\ Connects < MaxConnects
    /\ LET began == IF output.delay_active THEN ~output.delay_capturing
                    ELSE ~output.active
           w == obs_output_begin_data_capture(World)
       IN Commit([w EXCEPT !.sink = IF began THEN "streaming" ELSE @],
                 "obs_output_begin_data_capture", "")

\* the sink reports that it has stopped, with a code
SinkSignalStop ==
    /\ sink \in {"connecting", "streaming", "stopping"}
    /\ \E code \in StopCodes :
         Commit([obs_output_signal_stop(World, code) EXCEPT !.sink = "idle"],
                "obs_output_signal_stop", code)

\* the sink has wound down after its stop was called
SinkEndDataCapture ==
    /\ sink = "stopping"
    /\ Commit([obs_output_end_data_capture(World) EXCEPT !.sink = "idle"],
              "obs_output_end_data_capture", "")

\* the reconnect worker's wait times out
ReconnectThread ==
    /\ output.reconnect_thread_active
    /\ ~output.reconnect_stop_event
    /\ output.stopping_event
    /\ \E success \in BOOLEAN :
         Commit(reconnect_thread(World, success), "reconnect_thread", "")

EndDataCaptureThread ==
    /\ output.end_data_capture_thread_active
    /\ Commit(end_data_capture_thread(World), "end_data_capture_thread", "")

Stop ==
    /\ stops < MaxStops
    /\ Commit(obs_output_stop(World, 1), "obs_output_stop", "")

ForceStop ==
    /\ stops < MaxStops
    /\ Commit(obs_output_force_stop(World, 1), "obs_output_force_stop", "")

\* no packets flow in the lifecycle specification
IdleEncoders == {Encoder(1, 0, {1}, {1}, <<3, 3>>, TRUE)}

\* an encoded streaming sink with one audio track
StreamInfo == [flags |-> {ENCODED}, data |-> TRUE, mixes |-> 1]

InitOutput ==
    /\ output \in {obs_output_create(StreamInfo, exp, delay_sec) :
                      exp \in RetryExps, delay_sec \in DelaySecs}
    /\ sink = "idle"
    /\ signals = <<>>
    /\ calls = <<>>
    /\ last = [op |-> "obs_output_create", code |-> "", pre |-> output,
                ret |-> TRUE]
    /\ delays = <<>>
    /\ emitted = [n \in SignalNames |-> 0]
    /\ stops = 0
    /\ pc = [t \in Threads |-> [op |-> "", at |-> "idle"]]

NextRC ==
    \/ SetReconnectSettings
    \/ Start
    \/ SinkConnected
    \/ SinkSignalStop
    \/ SinkEndDataCapture
    \/ ReconnectThread
    \/ EndDataCaptureThread
    \/ Stop
    \/ ForceStop

InitRC == InitOutput /\ InitPackets(IdleEncoders)

SpecRC == InitRC /\ [][NextRC]_vars

\* the output once obs_output_start and obs_output_begin_data_capture have
\* succeeded: the encoders feed the interleaver
InitActive ==
    LET w0 == [output |-> obs_output_create(StreamInfo, 150, 0),
               sink |-> "idle", signals |-> <<>>, calls |-> <<>>,
               delays |-> <<>>, ret |-> FALSE]
        w1 == obs_output_start(w0, TRUE, TRUE)
        w == obs_output_begin_data_capture(w1)
    IN /\ output = w.output
       /\ sink = "streaming"
       /\ signals = w.signals
       /\ calls = w.calls
       /\ last = [op |-> "obs_output_begin_data_capture", code |-> "",
                  pre |-> w1.output, ret |-> w.ret]
       /\ delays = <<>>
       /\ emitted = [n \in SignalNames |-> Emitted(w, n)]
       /\ stops = 0
       /\ pc = [t \in Threads |-> [op |-> "", at |-> "idle"]]

InitIL == InitActive /\ InitPackets(Encoders)

SpecIL == InitIL /\ [][NextIL]_vars

InitILStrict == InitActive /\ InitPackets(StrictEncoders)

SpecILStrict == InitILStrict /\ [][NextIL]_vars

\* ---------------------------------------------------- reconnect properties

Range(seq) == {seq[i] : i \in 1..Len(seq)}

StopSignals == {i \in 1..Len(signals) : signals[i].signal = "stop"}

\* C7: the delays of the reconnect attempts of one disconnect episode are
\* non-decreasing and each is at most 15 minutes, the first included
BackoffMonotoneAndCapped ==
    \A i \in 1..Len(delays) :
        /\ delays[i] <= RECONNECT_RETRY_MAX_MSEC
        /\ i > 1 => delays[i - 1] <= delays[i]

Scenario5 ==
    /\ output.reconnect_retry_max = 3
    /\ output.reconnect_retry_sec = 2
    /\ output.reconnect_retry_exp = 150

\* the sink reports a failure after the third reconnect attempt
FourthFailure ==
    /\ last.op = "obs_output_signal_stop"
    /\ last.code # SUCCESS
    /\ last.pre.reconnecting
    /\ last.pre.reconnect_retries = 3

\* C8: with retry_max = 3, retry_sec = 2 and exponent 1.5 the reconnect
\* attempts are scheduled with delays 2000, 3000 and 4500 ms and there is no
\* fourth; the failure after the third gives up: one stop signal with code
\* DISCONNECTED, reconnecting and delay_active cleared, end_data_capture called
ReconnectScenario ==
    Scenario5 =>
        /\ \E n \in 0..3 : delays = SubSeq(<<2000, 3000, 4500>>, 1, n)
        /\ FourthFailure =>
             /\ delays = <<2000, 3000, 4500>>
             /\ Cardinality(StopSignals) = 1
             /\ \A i \in StopSignals : signals[i].code = DISCONNECTED
             /\ \A i \in 1..Len(signals) : signals[i].signal # "reconnect"
             /\ ~output.reconnecting
             /\ ~output.delay_active
             /\ ~output.reconnect_thread_active
             /\ "obs_output_end_data_capture" \in Range(calls)

\* the scenario gave up on an output whose delay was active
GaveUpAfterThreeAttempts ==
    /\ Scenario5
    /\ FourthFailure
    /\ last.pre.delay_active
    /\ delays = <<2000, 3000, 4500>>

\* the silent end_data_capture, then output_reconnect; a stop signal comes
\* only from output_reconnect giving up
ReconnectPath ==
    /\ Len(calls) >= 2
    /\ calls[1] = "obs_output_end_data_capture_internal(false)"
    /\ calls[2] = "output_reconnect"
    /\ StopSignals # {} <=> "obs_output_end_data_capture" \in Range(calls)

\* the stop is finalized: one stop signal with the code, nothing scheduled
FinalizePath ==
    /\ calls = <<"obs_output_end_data_capture">>
    /\ Cardinality(StopSignals) = 1
    /\ \A i \in StopSignals : signals[i].code = last.code
    /\ \A i \in 1..Len(signals) : signals[i].signal # "reconnect"
    /\ output.reconnect_thread_active = last.pre.reconnect_thread_active

\* C9 as claimed: obs_output_signal_stop(code) takes the reconnect path iff
\* (code = DISCONNECTED and reconnect_retry_max > 0) or (reconnecting and
\* code # SUCCESS), and finalizes the stop otherwise
ReconnectPathIffPositiveMax ==
    last.op = "obs_output_signal_stop" =>
        LET retryable ==
                \/ (last.code = DISCONNECTED
                    /\ last.pre.reconnect_retry_max > 0)
                \/ (last.pre.reconnecting /\ last.code # SUCCESS)
        IN IF retryable THEN ReconnectPath ELSE FinalizePath

\* C9 as amended: the same with reconnect_retry_max # 0
ReconnectPathIffNonZeroMax ==
    last.op = "obs_output_signal_stop" =>
        LET retryable ==
                \/ (last.code = DISCONNECTED
                    /\ last.pre.reconnect_retry_max # 0)
                \/ (last.pre.reconnecting /\ last.code # SUCCESS)
        IN IF retryable THEN ReconnectPath ELSE FinalizePath

\* the sink reported SUCCESS while the output was reconnecting, and the stop
\* was finalized
SuccessWhileReconnecting ==
    /\ last.op = "obs_output_signal_stop"
    /\ last.code = SUCCESS
    /\ last.pre.reconnecting
    /\ FinalizePath

\* ------------------------------------- concurrent callers of the stop calls

\* one statement of caller t, which goes on at 'next'
Step(w, t, op, next) ==
    /\ output' = w.output
    /\ sink' = w.sink
    /\ signals' = w.signals
    /\ calls' = w.calls
    /\ delays' = w.delays
    /\ emitted' = [n \in SignalNames |-> emitted[n] + Emitted(w, n)]
    /\ pc' = [pc EXCEPT ![t] = [op |-> op, at |-> next]]
    /\ UNCHANGED <<ilVars, exVars, last, stops>>

\* obs_output_stop up to its test of stopping(output)
StopCall(t) ==
    /\ pc[t].at = "idle"
    /\ IF ~output.active /\ ~output.reconnecting
       THEN Step(World, t, "obs_output_stop", "done")
       ELSE IF output.reconnecting
       THEN Step(World, t, "obs_output_force_stop", "test")
       ELSE IF output.active_delay_ns # 0
       THEN Step(obs_output_delay_stop(World), t, "obs_output_stop", "done")
       ELSE Step(World, t, "obs_output_stop", "test")

ForceStopCall(t) ==
    /\ pc[t].at = "idle"
    /\ Step(World, t, "obs_output_force_stop", "test")

\* if (!stopping(output))
TestStopping(t) ==
    /\ pc[t].at = "test"
    /\ Step(World, t, pc[t].op,
            IF ~stopping(World) THEN "signal"
            ELSE IF pc[t].op = "obs_output_stop" THEN "done"
            ELSE "actual_stop")

\* do_output_signal(output, "stopping"), after stop_code = 0 in force_stop
SignalStopping(t) ==
    /\ pc[t].at = "signal"
    /\ LET w == IF pc[t].op = "obs_output_force_stop"
                THEN [World EXCEPT !.output.stop_code = SUCCESS]
                ELSE World
       IN Step(do_output_signal(w, "stopping"), t, pc[t].op, "actual_stop")

\* obs_output_actual_stop: if (stopping(output) && !force) return
ActualStopEnter(t) ==
    /\ pc[t].at = "actual_stop"
    /\ Step(World, t, pc[t].op,
            IF stopping(World) /\ pc[t].op = "obs_output_stop" THEN "done"
            ELSE "reset")

\* obs_output_actual_stop from os_event_reset on
ActualStopReset(t) ==
    /\ pc[t].at = "reset"
    /\ Step(actual_stop_reset(World, pc[t].op = "obs_output_force_stop",
                              IF pc[t].op = "obs_output_stop" THEN 1 ELSE 0,
                              1),
            t, pc[t].op, "done")

NextStop ==
    \/ \E t \in Threads : StopCall(t)
    \/ \E t \in Threads : ForceStopCall(t)
    \/ \E t \in Threads : TestStopping(t)
    \/ \E t \in Threads : SignalStopping(t)
    \/ \E t \in Threads : ActualStopEnter(t)
    \/ \E t \in Threads : ActualStopReset(t)
    \/ SinkEndDataCapture
    \/ EndDataCaptureThread

InitStop == InitActive /\ InitPackets(IdleEncoders)

SpecStop == InitStop /\ [][NextStop]_vars

\* C10: while the session is active the stopping signal is emitted at most
\* once, however the callers of obs_output_stop and obs_output_force_stop
\* interleave
StoppingAtMostOnce == output.active => emitted["stopping"] <= 1

\* ------------------------------------------------------- stop and start calls

\* callers are interchangeable here: they make their calls in turn
Turn(t) ==
    /\ pc[t].at = "idle"
    /\ \A u \in 1..(t - 1) : pc[u].at = "done"

\* the handler of caller t has run as a whole and has returned
Called(w, t, op, code) ==
    /\ output' = w.output
    /\ sink' = w.sink
    /\ signals' = w.signals
    /\ calls' = w.calls
    /\ delays' = w.delays
    /\ last' = [op |-> op, code |-> code, pre |-> output, ret |-> w.ret]
    /\ emitted' = [n \in SignalNames |-> emitted[n] + Emitted(w, n)]
    /\ pc' = [pc EXCEPT ![t] = [op |-> "", at |-> "done"]]
    /\ UNCHANGED <<ilVars, exVars, stops>>

REJECTED == "service rejected"

\* a start that gets past the preconditions waits for stopping_event in
\* obs_output_actual_start
CallStart(t) ==
    /\ Turn(t)
    /\ \E service_ok, success \in BOOLEAN :
         /\ \/ ~output.context_data
            \/ (SERVICE \in output.flags /\ ~service_ok)
            \/ output.stopping_event
         /\ Called(obs_output_start(World, service_ok, success), t,
                   "obs_output_start",
                   IF service_ok THEN "" ELSE REJECTED)

CallStop(t) ==
    /\ Turn(t)
    /\ Called(obs_output_stop(World, 1), t, "obs_output_stop", "")

CallForceStop(t) ==
    /\ Turn(t)
    /\ Called(obs_output_force_stop(World, 1), t, "obs_output_force_stop", "")

\* sinks with and without a service, and one whose create returned no data
APIInfos ==
    {[flags |-> {ENCODED}, data |-> TRUE, mixes |-> 1],
     [flags |-> {ENCODED, SERVICE}, data |-> TRUE, mixes |-> 1],
     [flags |-> {ENCODED}, data |-> FALSE, mixes |-> 1]}

APIReconnectSettings == {<<1, 0>>, <<0, 2>>}

\* the output created and configured by the front end
InitAPI ==
    /\ \E info \in APIInfos, delay_sec \in DelaySecs,
          args \in APIReconnectSettings :
          LET o == obs_output_create(info, 150, delay_sec)
          IN /\ output = [o EXCEPT !.reconnect_retry_max = args[1],
                                   !.reconnect_retry_sec = args[2]]
             /\ last = [op |-> "obs_output_set_reconnect_settings",
                        code |-> "", pre |-> o, ret |-> TRUE]
    /\ sink = "idle"
    /\ signals = <<>>
    /\ calls = <<>>
    /\ delays = <<>>
    /\ emitted = [n \in SignalNames |-> 0]
    /\ stops = 0
    /\ pc = [t \in Threads |-> [op |-> "", at |-> "idle"]]
    /\ InitPackets(IdleEncoders)

NextAPI ==
    \/ Start
    \/ \E t \in Threads : CallStart(t)
    \/ \E t \in Threads : CallStop(t)
    \/ \E t \in Threads : CallForceStop(t)
    \/ SinkConnected
    \/ SinkSignalStop
    \/ SinkEndDataCapture
    \/ ReconnectThread
    \/ EndDataCaptureThread

SpecAPI == InitAPI /\ [][NextAPI]_vars

\* C11: in a session, one successful start with no restart by the reconnect
\* worker, the stop signal is emitted at most once, whatever the callers and
\* the sink call
StopAtMostOncePerSession ==
    emitted["reconnect"] = 0 => emitted["stop"] <= 1

\* the output before the last call, as that call found it
PreWorld == [output |-> last.pre, sink |-> sink, signals |-> <<>>,
             calls |-> <<>>, delays |-> delays, ret |-> FALSE]

NoStopping == \A i \in 1..Len(signals) : signals[i].signal # "stopping"

NoSinkStop ==
    /\ "info.stop(ts = 0)" \notin Range(calls)
    /\ "info.stop(ts = now)" \notin Range(calls)

\* the call did what obs_output_force_stop does from the same state
AsForceStop ==
    LET f == obs_output_force_stop(PreWorld, 1)
    IN /\ output = f.output
       /\ signals = f.signals
       /\ calls = f.calls

StopOnData == last.op = "obs_output_stop" /\ last.pre.context_data

\* C12 as claimed: obs_output_stop on an output that is already stopping
\* emits no stopping signal, does not call the sink's stop and changes no
\* flag; on a reconnecting output it does what obs_output_force_stop does; on
\* an output neither active nor reconnecting it does nothing
StopNoOpWhenStopping ==
    StopOnData =>
        /\ ~last.pre.stopping_event =>
              NoStopping /\ NoSinkStop /\ output = last.pre
        /\ last.pre.reconnecting => AsForceStop
        /\ (~last.pre.active /\ ~last.pre.reconnecting) =>
              output = last.pre /\ signals = <<>> /\ calls = <<>>

\* C12 as amended: the no-op on a stopping output holds when the output is
\* not reconnecting; a reconnecting output is force-stopped, stopping or not
StopNoOpWhenStoppingNotReconnecting ==
    StopOnData =>
        /\ (~last.pre.stopping_event /\ ~last.pre.reconnecting) =>
              NoStopping /\ NoSinkStop /\ output = last.pre
        /\ last.pre.reconnecting => AsForceStop
        /\ (~last.pre.active /\ ~last.pre.reconnecting) =>
              output = last.pre /\ signals = <<>> /\ calls = <<>>

\* a second obs_output_stop found the output active and stopping
StoppedWhileStopping ==
    /\ StopOnData
    /\ last.pre.active
    /\ ~last.pre.stopping_event
    /\ ~last.pre.reconnecting

\* C14: obs_output_force_stop on an output with sink data calls the sink's
\* stop with ts = 0 in every state, delay active without delayed capture
\* included; when delay is active it also marks delay inactive and calls
\* end_data_capture
ForceStopCallsSinkStop ==
    (last.op = "obs_output_force_stop" /\ last.pre.context_data) =>
        /\ "info.stop(ts = 0)" \in Range(calls)
        /\ last.pre.delay_active =>
              /\ ~output.delay_active
              /\ "obs_output_end_data_capture" \in Range(calls)

\* C15: obs_output_start returns false, does not call the sink's start, emits
\* no signal and changes no field of the output when the sink data is null,
\* when the output is already active, or when the sink has the SERVICE flag
\* and the service rejects
StartFailsCleanly ==
    (/\ last.op = "obs_output_start"
     /\ \/ ~last.pre.context_data
        \/ last.pre.active
        \/ (SERVICE \in last.pre.flags /\ last.code = REJECTED)) =>
        /\ ~last.ret
        /\ "info.start" \notin Range(calls)
        /\ signals = <<>>
        /\ output = last.pre

\* ------------------------------------ force stop against the reconnect worker

Worker == 1

Callers == Threads \ {Worker}

\* one statement of the reconnect worker
WorkerStep(w, next) == Step(w, Worker, "reconnect_thread", next)

\* output->reconnect_thread_active = true
WorkerBegin ==
    /\ pc[Worker].at = "created"
    /\ WorkerStep([World EXCEPT !.output.reconnect_thread_active = TRUE],
                  "timedwait")

\* os_event_timedwait returning on the signal and the worker starting the
\* output all the same
WorkerWakeStarts ==
    /\ pc[Worker].at = "timedwait"
    /\ output.reconnect_stop_event
    /\ WorkerStep(World, "actual_start")

\* os_event_timedwait returns because reconnect_stop_event is signalled
WorkerWake ==
    /\ pc[Worker].at = "timedwait"
    /\ output.reconnect_stop_event
    /\ WorkerStep(World, "try")

\* os_event_timedwait returns ETIMEDOUT
WorkerTimeout ==
    /\ pc[Worker].at = "timedwait"
    /\ ~output.reconnect_stop_event
    /\ WorkerStep(World, "actual_start")

\* obs_output_actual_start: os_event_wait(stopping_event) has returned
WorkerActualStart ==
    /\ pc[Worker].at = "actual_start"
    /\ output.stopping_event
    /\ \E success \in BOOLEAN :
         WorkerStep(obs_output_actual_start(World, success), "try")

\* os_event_try(reconnect_stop_event): detach, or clear reconnecting
WorkerTry ==
    /\ pc[Worker].at = "try"
    /\ WorkerStep(IF ~output.reconnect_stop_event THEN World
                  ELSE [World EXCEPT !.output.reconnecting = FALSE],
                  "exit")

\* output->reconnect_thread_active = false; return
WorkerExit ==
    /\ pc[Worker].at = "exit"
    /\ WorkerStep([World EXCEPT !.output.reconnect_thread_active = FALSE],
                  "done")

Force(t) == pc[t].op = "obs_output_force_stop"

\* obs_output_pause(output, false); os_event_reset(output->stopping_event)
StopReset(t) ==
    /\ pc[t].at = "reset"
    /\ Step([obs_output_pause(World, FALSE, 1) EXCEPT
                !.output.stopping_event = FALSE],
            t, pc[t].op, "cancel")

\* was_reconnecting is taken and reconnect_stop_event is signalled
StopSignal(t) ==
    /\ pc[t].at = "cancel"
    /\ IF ~output.reconnecting
       THEN Step(World, t, pc[t].op, "finish")
       ELSE Step([World EXCEPT !.output.reconnect_stop_event = TRUE],
                 t, pc[t].op,
                 IF ~output.delay_active THEN "check_thread was_reconnecting"
                 ELSE "check_thread")

\* if (output->reconnect_thread_active)
StopCheckThread(t) ==
    \/ /\ pc[t].at = "check_thread"
       /\ Step(World, t, pc[t].op,
               IF output.reconnect_thread_active THEN "join" ELSE "finish")
    \/ /\ pc[t].at = "check_thread was_reconnecting"
       /\ Step(World, t, pc[t].op,
               IF output.reconnect_thread_active
               THEN "join was_reconnecting" ELSE "finish was_reconnecting")

\* pthread_join returns once the worker has returned
StopJoin(t) ==
    /\ pc[Worker].at = "done"
    /\ \/ pc[t].at = "join" /\ Step(World, t, pc[t].op, "finish")
       \/ /\ pc[t].at = "join was_reconnecting"
          /\ Step(World, t, pc[t].op, "finish was_reconnecting")

StopFinish(t) ==
    /\ pc[t].at \in {"finish", "finish was_reconnecting"}
    /\ Step(actual_stop_finish(World, Force(t), IF Force(t) THEN 0 ELSE 1,
                               pc[t].at = "finish was_reconnecting"),
            t, pc[t].op, "done")

\* an output, with or without delay, whose sink has reported a disconnect:
\* output_reconnect has created the worker, which has not run yet
InitJoin ==
    /\ \E delay_sec \in DelaySecs :
          LET w0 == [output |-> obs_output_create(StreamInfo, 150, delay_sec),
                     sink |-> "idle", signals |-> <<>>, calls |-> <<>>,
                     delays |-> <<>>, ret |-> FALSE]
              w1 == obs_output_begin_data_capture(
                        obs_output_start(w0, TRUE, TRUE))
              w == obs_output_signal_stop(w1, DISCONNECTED)
          IN /\ output = [w.output EXCEPT !.reconnect_thread_active = FALSE]
             /\ signals = w.signals
             /\ calls = w.calls
             /\ delays = w.delays
             /\ last = [op |-> "obs_output_signal_stop",
                        code |-> DISCONNECTED, pre |-> w1.output,
                        ret |-> w.ret]
             /\ emitted = [n \in SignalNames |-> Emitted(w, n)]
    /\ sink = "idle"
    /\ stops = 0
    /\ pc = [t \in Threads |->
                IF t = Worker THEN [op |-> "reconnect_thread", at |-> "created"]
                ELSE [op |-> "", at |-> "idle"]]
    /\ InitPackets(IdleEncoders)

NextJoin ==
    \/ WorkerBegin
    \/ WorkerWake
    \/ WorkerTimeout
    \/ WorkerActualStart
    \/ WorkerTry
    \/ WorkerExit
    \/ \E t \in Callers : StopCall(t)
    \/ \E t \in Callers : ForceStopCall(t)
    \/ \E t \in Callers : TestStopping(t)
    \/ \E t \in Callers : SignalStopping(t)
    \/ \E t \in Callers : ActualStopEnter(t)
    \/ \E t \in Callers : StopReset(t)
    \/ \E t \in Callers : StopSignal(t)
    \/ \E t \in Callers : StopCheckThread(t)
    \/ \E t \in Callers : StopJoin(t)
    \/ \E t \in Callers : StopFinish(t)
    \/ SinkConnected
    \/ SinkEndDataCapture
    \/ EndDataCaptureThread

SpecJoin == InitJoin /\ [][NextJoin]_vars

\* C13: obs_output_force_stop called while the output is reconnecting always
\* returns: whenever a caller or the worker is inside a call, some thread can
\* take a step, in every interleaving
ForceStopReturns ==
    \/ \A t \in Threads : pc[t].at \in {"idle", "done"}
    \/ ENABLED NextJoin


\* ------------------------------------------------ pausing a raw output
\* A raw output is capturing. Its video and audio sources hand it frames in
\* the order in which they are complete, threads pause and resume it, each
\* call in the steps of obs_output_pause, and it may be stopped. env.now is
\* the clock, enc_dts the timestamp each source stamps next.

\* frames the two sources hand the output in a run
MaxFrames == 12

FirstVideoTs == 1000000000

\* the first audio begins half a chunk before the first video frame
FirstAudioTs == 984000000

\* how long after the last video frame a call reads the clock
NowOffsets == {16666667, 50000000}

AudioChunk(timestamp) == [timestamp |-> timestamp,
                          frames |-> AUDIO_OUTPUT_FRAMES]

AudioChunkNs == audio_frames_to_ns(SampleRate, AUDIO_OUTPUT_FRAMES)

RawOutput == [output |-> output, sent |-> sent, fed |-> fed,
              total_frames |-> total_frames]

RawCommit(r, next_dts, now) ==
    /\ output' = r.output
    /\ sent' = r.sent
    /\ fed' = r.fed
    /\ total_frames' = r.total_frames
    /\ enc_dts' = next_dts
    /\ env' = [now |-> IF now > env.now THEN now ELSE env.now]
    /\ npackets' = npackets + 1
    /\ UNCHANGED <<interleaved_packets, received_video, received_audio,
                   highest_video_ts, highest_audio_ts, video_offset,
                   audio_offsets, sink, signals, calls, last, delays,
                   emitted, stops, exVars, pc>>

\* a video frame is complete at its timestamp, an audio chunk at its end
VideoIsNext == enc_dts.video <= enc_dts.audio + AudioChunkNs

\* video_output calls the raw video callback while the capture is hooked
RawVideo ==
    /\ output.active
    /\ npackets < MaxFrames
    /\ VideoIsNext
    /\ RawCommit(default_raw_video_callback(
                     RawOutput, [timestamp |-> enc_dts.video]),
                 [enc_dts EXCEPT !.video = @ + video_frame_interval_ns],
                 enc_dts.video)

RawAudio ==
    /\ output.active
    /\ npackets < MaxFrames
    /\ ~VideoIsNext
    /\ RawCommit(default_raw_audio_callback(
                     RawOutput, AudioChunk(enc_dts.audio)),
                 [enc_dts EXCEPT !.audio = @ + AudioChunkNs],
                 enc_dts.audio + AudioChunkNs)

\* a step of obs_output_pause by thread t; l: what the step leaves in last
PauseStep(w, t, op, next, l, now) ==
    /\ output' = w.output
    /\ sink' = w.sink
    /\ signals' = w.signals
    /\ calls' = w.calls
    /\ delays' = w.delays
    /\ emitted' = [n \in SignalNames |-> emitted[n] + Emitted(w, n)]
    /\ pc' = [pc EXCEPT ![t] = [op |-> IF next = "done" THEN "" ELSE op,
                                 at |-> next]]
    /\ last' = l
    /\ env' = [now |-> now]
    /\ UNCHANGED <<interleaved_packets, received_video, received_audio,
                   highest_video_ts, highest_audio_ts, video_offset,
                   audio_offsets, total_frames, enc_dts, npackets, sent, fed,
                   stops, exVars>>

\* the two threads that pause and resume the output
Pausers == {1, 2}

PAUSE == "obs_output_pause(true)"
UNPAUSE == "obs_output_pause(false)"

\* the tests obs_output_pause makes before it touches the pause state; each
\* thread makes one call, and the threads are numbered in the order in which
\* they call
PauseEnter(t) ==
    /\ pc[t].at = "idle"
    /\ \A u \in 1..(t - 1) : pc[u].at # "idle"
    /\ \E pause \in BOOLEAN :
         LET op == IF pause THEN PAUSE ELSE UNPAUSE
             go == /\ CAN_PAUSE \in output.flags
                   /\ output.active
                   /\ output.paused # pause
         IN PauseStep(World, t, op, IF go THEN "dispatch" ELSE "done",
                      last, env.now)

\* the clock readings a call can make now
Nows ==
    LET last_video_ts == IF encoded(World)
                         THEN output.video_encoder.pause.last_video_ts
                         ELSE output.pause.last_video_ts
        base == IF last_video_ts = 0 THEN env.now ELSE last_video_ts
    IN {n \in {base + off : off \in NowOffsets} : n >= env.now}

\* obs_raw_output_pause, under the pause mutex of the output
PauseDispatch(t) ==
    /\ pc[t].at = "dispatch"
    /\ ~encoded(World)
    /\ \E now \in Nows :
         \E r \in {pause_dispatch(World, pc[t].op = PAUSE, now)} :
            PauseStep(r, t, pc[t].op, IF r.ret THEN "publish" ELSE "done",
                      [op |-> "obs_raw_output_pause",
                       code |-> pc[t].op, pre |-> output, ret |-> r.ret,
                       now |-> now],
                      now)

PausePublish(t) ==
    /\ pc[t].at = "publish"
    /\ PauseStep(pause_set_paused(World, pc[t].op = PAUSE), t, pc[t].op,
                 "emit", last, env.now)

PauseEmit(t) ==
    /\ pc[t].at = "emit"
    /\ PauseStep(pause_signal(World, pc[t].op = PAUSE), t, pc[t].op, "done",
                 last, env.now)

\* obs_output_stop, which resumes a paused output before it stops it
StopCapture ==
    /\ stops < MaxStops
    /\ Commit(obs_output_stop(World, env.now), "obs_output_stop", "")

\* raw sinks, one that can pause and one that cannot
RawInfos == {[flags |-> {CAN_PAUSE}, data |-> TRUE, mixes |-> 1],
             [flags |-> {}, data |-> TRUE, mixes |-> 1]}

InitPause ==
    \E info \in RawInfos :
       LET w0 == [output |-> obs_output_create(info, 150, 0),
                  sink |-> "idle", signals |-> <<>>, calls |-> <<>>,
                  delays |-> <<>>, ret |-> FALSE]
           w1 == obs_output_start(w0, TRUE, TRUE)
           w == obs_output_begin_data_capture(w1)
       IN /\ output = w.output
          /\ sink = "streaming"
          /\ signals = w.signals
          /\ calls = w.calls
          /\ last = [op |-> "obs_output_begin_data_capture", code |-> "",
                     pre |-> w1.output, ret |-> w.ret]
          /\ delays = <<>>
          /\ emitted = [n \in SignalNames |-> Emitted(w, n)]
          /\ stops = 0
          /\ pc = [t \in Threads |-> [op |-> "", at |-> "idle"]]
          /\ interleaved_packets = <<>>
          /\ received_video = FALSE
          /\ received_audio = FALSE
          /\ highest_video_ts = 0
          /\ highest_audio_ts = 0
          /\ video_offset = 0
          /\ audio_offsets = [i \in Tracks |-> 0]
          /\ total_frames = 0
          /\ env = [now |-> FirstAudioTs]
          /\ enc_dts = [video |-> FirstVideoTs, audio |-> FirstAudioTs]
          /\ npackets = 0
          /\ sent = <<>>
          /\ fed = <<>>
          /\ caption = NoCaptions
          /\ services = NoServices
          /\ mutexes = NoMutexes

NextPause ==
    \/ RawVideo
    \/ RawAudio
    \/ \E t \in Pausers :
          \/ PauseEnter(t)
          \/ PauseDispatch(t)
          \/ PausePublish(t)
          \/ PauseEmit(t)
    \/ StopCapture
    \/ SinkEndDataCapture
    \/ EndDataCaptureThread

SpecPause == InitPause /\ [][NextPause]_vars


\* -------------------------------------------- pausing an encoded output
\* An encoded output is capturing. Threads pause and resume it, each call in
\* the steps of obs_encoded_output_pause: the pause mutexes are taken one by
\* one, the encoders are tested, the video encoder is changed, then the audio
\* encoders, and the mutexes are released. The video encoder's own thread
\* takes its pause mutex for every frame. The first audio encoder may serve a
\* second output as well, which has paused it or has paused and resumed it.

pause_mutex_lock(e, t) == [e EXCEPT !.pause.mutex = t]

pause_mutex_unlock(e) == [e EXCEPT !.pause.mutex = 0]

\* the audio encoders whose pause mutex thread t has yet to take
Unlocked(t) == {i \in DOMAIN output.audio_encoders :
                   output.audio_encoders[i].pause.mutex # t}

EncLockVideo(t) ==
    /\ pc[t].at = "dispatch"
    /\ encoded(World)
    /\ output.video_encoder.pause.mutex = 0
    /\ PauseStep([World EXCEPT
                    !.output.video_encoder = pause_mutex_lock(@, t)],
                 t, pc[t].op, "lock_audio", last, env.now)

\* the audio mutexes are taken in the order of the mixes
EncLockAudio(t) ==
    /\ pc[t].at = "lock_audio"
    /\ IF Unlocked(t) = {}
       THEN PauseStep(World, t, pc[t].op, "critical", last, env.now)
       ELSE LET i == Min(Unlocked(t))
            IN /\ output.audio_encoders[i].pause.mutex = 0
               /\ PauseStep([World EXCEPT
                               !.output.audio_encoders[i] =
                                   pause_mutex_lock(@, t)],
                            t, pc[t].op, "lock_audio", last, env.now)

ENCODED_PAUSE == "obs_encoded_output_pause"

\* the tests, and the change of the video encoder when they pass
EncCritical(t) ==
    /\ pc[t].at = "critical"
    /\ \E now \in Nows :
         LET pause == pc[t].op = PAUSE
             ok == encoded_pause_allowed(World, pause)
             closest_v_ts ==
                 get_closest_v_ts(output.video_encoder.pause, now)
         IN PauseStep(IF ok
                      THEN encoded_pause_video(World, pause, closest_v_ts)
                      ELSE World,
                      t, pc[t].op, IF ok THEN "audio" ELSE "fail",
                      [op |-> ENCODED_PAUSE, code |-> pc[t].op,
                       pre |-> output, ret |-> ok, now |-> now],
                      now)

\* the audio encoders get the timestamp the video encoder got
EncMutateAudio(t) ==
    /\ pc[t].at = "audio"
    /\ LET pause == pc[t].op = PAUSE
           closest_v_ts == IF pause THEN output.video_encoder.pause.ts_start
                           ELSE output.video_encoder.pause.ts_end
       IN PauseStep(encoded_pause_audio(World, pause, closest_v_ts),
                    t, pc[t].op, "unlock", last, env.now)

\* the mutexes are released, after a success or at the label fail
EncUnlock(t) ==
    /\ pc[t].at \in {"unlock", "fail"}
    /\ PauseStep([World EXCEPT
                    !.output.video_encoder = pause_mutex_unlock(@),
                    !.output.audio_encoders =
                        [i \in DOMAIN output.audio_encoders |->
                            pause_mutex_unlock(output.audio_encoders[i])]],
                 t, pc[t].op, IF pc[t].at = "unlock" THEN "publish"
                              ELSE "done",
                 last, env.now)

\* the video encoder receives a frame and consults its pause state
EncVideoFrame ==
    /\ output.active
    /\ npackets < MaxFrames
    /\ output.video_encoder.pause.mutex = 0
    /\ RawCommit([RawOutput EXCEPT
                    !.output.video_encoder.pause =
                        video_pause_check(@, enc_dts.video).pause],
                 [enc_dts EXCEPT !.video = @ + video_frame_interval_ns],
                 enc_dts.video)

\* encoded sinks that can pause, with one and with two audio tracks
EncodedInfos == {[flags |-> {ENCODED, CAN_PAUSE}, data |-> TRUE, mixes |-> m]
                    : m \in 1..2}

\* the first audio encoder as a second output has left it: untouched, paused,
\* or paused and resumed
SharedEncoders ==
    LET w0 == [output |-> obs_output_create(StreamInfo, 150, 0),
               sink |-> "idle", signals |-> <<>>, calls |-> <<>>,
               delays |-> <<>>, ret |-> FALSE]
        w1 == obs_encoded_output_pause(w0, TRUE, FirstAudioTs)
        w2 == obs_encoded_output_pause(w1, FALSE, FirstVideoTs)
    IN {w.output.audio_encoders[0] : w \in {w0, w1, w2}}

InitEncPause ==
    \E info \in EncodedInfos, shared \in SharedEncoders :
       LET w0 == [output |-> obs_output_create(info, 150, 0),
                  sink |-> "idle", signals |-> <<>>, calls |-> <<>>,
                  delays |-> <<>>, ret |-> FALSE]
           w1 == obs_output_start(w0, TRUE, TRUE)
           w == obs_output_begin_data_capture(w1)
       IN /\ output = [w.output EXCEPT !.audio_encoders[0] = shared]
          /\ sink = "streaming"
          /\ signals = w.signals
          /\ calls = w.calls
          /\ last = [op |-> "obs_output_begin_data_capture", code |-> "",
                     pre |-> w1.output, ret |-> w.ret]
          /\ delays = <<>>
          /\ emitted = [n \in SignalNames |-> Emitted(w, n)]
          /\ stops = 0
          /\ pc = [t \in Threads |-> [op |-> "", at |-> "idle"]]
          /\ interleaved_packets = <<>>
          /\ received_video = FALSE
          /\ received_audio = FALSE
          /\ highest_video_ts = 0
          /\ highest_audio_ts = 0
          /\ video_offset = 0
          /\ audio_offsets = [i \in Tracks |-> 0]
          /\ total_frames = 0
          /\ env = [now |-> FirstAudioTs]
          /\ enc_dts = [video |-> FirstVideoTs, audio |-> FirstAudioTs]
          /\ npackets = 0
          /\ sent = <<>>
          /\ fed = <<>>
          /\ caption = NoCaptions
          /\ services = NoServices
          /\ mutexes = NoMutexes

NextEncPause ==
    \/ EncVideoFrame
    \/ \E t \in Pausers :
          \/ PauseEnter(t)
          \/ EncLockVideo(t)
          \/ EncLockAudio(t)
          \/ EncCritical(t)
          \/ EncMutateAudio(t)
          \/ EncUnlock(t)
          \/ PausePublish(t)
          \/ PauseEmit(t)

SpecEncPause == InitEncPause /\ [][NextEncPause]_vars

\* ------------------------------------------------------------- pause claims

\* C16: over any sequence of pause calls and any interleaving of the calling
\* threads the pause and unpause signals alternate, starting with pause: at
\* no time have more resumes than pauses been signalled, nor two pauses more
\* than resumes.
PauseSignalsAlternate ==
    /\ emitted["unpause"] <= emitted["pause"]
    /\ emitted["pause"] <= emitted["unpause"] + 1

RawPaused == last.op = "obs_raw_output_pause"

\* C17: on a raw output a begin request succeeds exactly when ts_start = 0 and
\* ts_end = 0, an end request exactly when ts_start # 0 and ts_end = 0, and a
\* rejected request leaves ts_start, ts_end and ts_offset as they were.
RawPausePreconditions ==
    RawPaused =>
       LET pre == last.pre.pause
           post == output.pause
       IN /\ last.code = PAUSE =>
                (last.ret <=> pre.ts_start = 0 /\ pre.ts_end = 0)
          /\ last.code = UNPAUSE =>
                (last.ret <=> pre.ts_start # 0 /\ pre.ts_end = 0)
          /\ ~last.ret => /\ post.ts_start = pre.ts_start
                          /\ post.ts_end = pre.ts_end
                          /\ post.ts_offset = pre.ts_offset

\* a resume was rejected because the pause had already been ended
ResumeRejected ==
    RawPaused /\ last.code = UNPAUSE /\ ~last.ret /\ last.pre.pause.ts_end # 0

\* the pause request of scenario S4: the last video frame at 1000000000, the
\* clock at 1050000000
ScenarioS4 ==
    /\ RawPaused
    /\ last.code = PAUSE
    /\ last.ret
    /\ last.pre.pause.last_video_ts = 1000000000
    /\ last.now = 1050000000

\* C19 as stated: the request of scenario S4 begins the pause at the last
\* video timestamp plus two frame intervals, 1066666666.
S4StartsTwoIntervalsLater == ScenarioS4 => output.pause.ts_start = 1066666666

\* C19: the request of scenario S4 begins the pause at the last video
\* timestamp plus three frame intervals, 1099999999.
S4StartsThreeIntervalsLater ==
    ScenarioS4 => output.pause.ts_start = 1099999999

\* a pause and its resume have both taken effect
CycleCompleted == output.pause.ts_start # 0 /\ output.pause.ts_end # 0

\* C20: the pause offset of a raw output is the sum of ts_end - ts_start over
\* the completed pause cycles, and every raw frame handed to the sink, video
\* or audio, carries its source timestamp plus the pause offset of the time.
RawFramesCarryOffset ==
    /\ output.pause.ts_offset =
          IF CycleCompleted
          THEN output.pause.ts_end - output.pause.ts_start ELSE 0
    /\ \A i \in 1..Len(sent) :
          sent[i].timestamp = sent[i].raw_ts + sent[i].ts_offset


\* the encoders of an encoded output: -1 is the video encoder, the others
\* are the audio encoders by mix
EncoderKeys == {-1} \cup DOMAIN output.audio_encoders

EncoderOf(o, k) == IF k = -1 THEN o.video_encoder ELSE o.audio_encoders[k]

EncodedPaused == last.op = ENCODED_PAUSE

\* C18: an encoded pause or resume changes no encoder and fails when any one
\* encoder fails its begin or end test; when it succeeds every encoder gets
\* the same ts_start or ts_end; and while only some encoders have been
\* changed, the changing thread holds every encoder's pause mutex, so that no
\* other thread sees them half changed.
EncodedPauseAllOrNothing ==
    /\ EncodedPaused =>
          /\ last.ret <=>
                \A k \in EncoderKeys :
                   pause_can(EncoderOf(last.pre, k).pause, last.code = PAUSE)
          /\ ~last.ret =>
                \A k \in EncoderKeys :
                   LET pre == EncoderOf(last.pre, k)
                       post == EncoderOf(output, k)
                   IN /\ post.paused = pre.paused
                      /\ post.pause.ts_start = pre.pause.ts_start
                      /\ post.pause.ts_end = pre.pause.ts_end
                      /\ post.pause.ts_offset = pre.pause.ts_offset
          /\ (last.ret /\ \A t \in Pausers : pc[t].at # "audio") =>
                \A k \in EncoderKeys :
                   LET e == EncoderOf(output, k)
                       venc == output.video_encoder
                   IN IF last.code = PAUSE
                      THEN e.paused /\ e.pause.ts_start = venc.pause.ts_start
                      ELSE ~e.paused /\ e.pause.ts_end = venc.pause.ts_end
    /\ \A t \in Pausers :
          pc[t].at = "audio" =>
             \A k \in EncoderKeys : EncoderOf(output, k).pause.mutex = t

\* a pause was refused because of an audio encoder alone
AudioEncoderRefused ==
    /\ EncodedPaused
    /\ ~last.ret
    /\ pause_can(last.pre.video_encoder.pause, last.code = PAUSE)
    /\ \E k \in DOMAIN last.pre.audio_encoders :
          ~pause_can(last.pre.audio_encoders[k].pause, last.code = PAUSE)


\* --------------------------------------------------- signals and workers

\* C21: the activate signal is emitted only after active has been set: a
\* handler of activate that reads the active flag reads true.
ActivateAfterActive ==
    \A i \in 1..Len(signals) :
       signals[i].signal = "activate" => signals[i].active


\* C22: stopping_event becomes signalled again only after the teardown worker
\* has cleared active, in every stop path: while the worker of a session runs
\* the event is not signalled, and a start that succeeded did not begin
\* while that worker was running.
StoppingEventAfterTeardown ==
    /\ output.end_data_capture_thread_active => ~output.stopping_event
    /\ (last.op = "obs_output_start" /\ last.ret) =>
          ~last.pre.end_data_capture_thread_active

\* ------------------------------------------------- services of the outputs

\* obs_output_set_service(output, service) on the pointers of sv
obs_output_set_service(sv, o, s) ==
    IF sv.output[o].active \/ s = NULL \/ sv.service[s].active THEN sv
    ELSE LET prev == sv.service[s].output
             sv1 == IF prev # NULL
                    THEN [sv EXCEPT !.output[prev].service = NULL]
                    ELSE sv
         IN [sv1 EXCEPT !.output[o].service = s, !.service[s].output = o]

\* the front end binds a service to an output
SetService ==
    /\ \E o \in OutputIds, s \in ServiceIds \cup {NULL} :
          services' = obs_output_set_service(services, o, s)
    /\ UNCHANGED <<ilVars, lcVars, caption, mutexes, pc>>

InitService == InitOutput /\ InitPackets(IdleEncoders)

NextService == SetService

SpecService == InitService /\ [][NextService]_vars

\* C23: after any sequence of obs_output_set_service calls on inactive
\* outputs and services the two pointers agree: output o points to service
\* s exactly if service s points to output o (so a service is bound to at
\* most one output and an output to at most one service)
ServicePointersAgree ==
    \A o \in OutputIds, s \in ServiceIds :
       services.output[o].service = s <=> services.service[s].output = o

\* ------------------------------------------------- destroying the output

\* the value obs_output_destroy stores in context.control->ref.refs
REFS_DESTROYED == -255

\* obs_output_destroy up to its os_event_wait(stopping_event); valid is true
\* of every output that was created
obs_output_destroy_stop(w, now) ==
    LET w0 == [w EXCEPT !.output.refs = REFS_DESTROYED]
    IN IF active(w0) THEN obs_output_actual_stop(w0, TRUE, 0, now) ELSE w0

\* pthread_join(end_data_capture_thread) if data_capture_ending(output)
join_end_data_capture(w) ==
    IF w.output.end_data_capture_thread_active
    THEN end_data_capture_thread(w) ELSE w

\* obs_output_destroy once the wait has returned: the end-data-capture worker
\* is joined, the sink is destroyed, the events and the output are freed
obs_output_destroy_free(w) ==
    LET w1 == join_end_data_capture(w)
        w2 == IF w1.output.context_data
              THEN join_end_data_capture(
                       [Call(w1, "info.destroy") EXCEPT
                           !.output.context_data = FALSE])
              ELSE w1
    IN [w2 EXCEPT !.output.freed = TRUE]

\* the last reference to the output is released
DestroyStop ==
    /\ output.refs > 0
    /\ last.op # "obs_output_create"
    /\ Commit(obs_output_destroy_stop(World, 1), "obs_output_destroy", "")

DestroyFree ==
    /\ output.refs < 0
    /\ ~output.freed
    /\ output.stopping_event
    /\ Commit(obs_output_destroy_free(World), "obs_output_destroy", "freed")

InitDestroy == InitOutput /\ InitPackets(IdleEncoders)

\* the front end calls nothing on an output it has released; the sink and the
\* workers go on until the output is freed
NextDestroy ==
    \/ (output.refs > 0 /\ SetReconnectSettings)
    \/ (output.refs > 0 /\ Start)
    \/ (output.refs > 0 /\ Stop)
    \/ (~output.freed /\ SinkConnected)
    \/ (~output.freed /\ SinkSignalStop)
    \/ (~output.freed /\ SinkEndDataCapture)
    \/ (~output.freed /\ ReconnectThread)
    \/ (~output.freed /\ EndDataCaptureThread)
    \/ DestroyStop
    \/ DestroyFree

SpecDestroy == InitDestroy /\ [][NextDestroy]_vars

\* C24: obs_output_destroy frees the output only after both workers have
\* finished: when the output is freed neither the end-data-capture worker
\* nor the reconnect worker is still running, whatever the state was in
\* which destroy was called
FreedAfterWorkers ==
    output.freed =>
       /\ ~output.end_data_capture_thread_active
       /\ ~output.reconnect_thread_active

\* the part of C24 that is about the end-data-capture worker alone
FreedAfterEndDataCapture ==
    output.freed => ~output.end_data_capture_thread_active

\* ------------------------------------------------------------- captions

\* display durations of the text captions, in seconds: the 2.0f that
\* obs_output_output_caption_text1 passes on
CaptionDurations == {2}

\* obs_output_output_caption_text2(output, text, display_duration)
obs_output_output_caption_text2(c, is_active, text, display_duration) ==
    IF ~is_active THEN c
    ELSE [c EXCEPT !.caption_head =
             Append(@, [text |-> text,
                        display_duration |-> display_duration])]

\* obs_output_caption(output, captions) with one CEA-708 packet
obs_output_caption(c) == [c EXCEPT !.caption_data = @ + 1]

Queued == Len(caption.caption_head) + caption.caption_data
             + Len(caption.injected)

\* the front end sends a line of text to the output
CaptionText ==
    /\ Queued < MaxCaptions
    /\ \E d \in CaptionDurations :
          caption' = obs_output_output_caption_text2(caption, output.active,
                                                     "HELLO", d)
    /\ UNCHANGED <<ilVars, lcVars, services, mutexes, pc>>

\* a source hands a CEA-708 packet to the output
CaptionData ==
    /\ Queued < MaxCaptions
    /\ caption' = obs_output_caption(caption)
    /\ UNCHANGED <<ilVars, lcVars, services, mutexes, pc>>

\* two frames per second; the keyframe has the highest NAL priority, the
\* other frames are disposable
CaptionEncoders ==
    {[Encoder(1, 0, {1, 2}, {8}, <<-5, -5>>, TRUE) EXCEPT
         !.video_den = 2, !.audio_den = 2,
         !.priority = [key \in BOOLEAN |-> IF key THEN 3 ELSE 1]]}

InitCaption == InitActive /\ InitPackets(CaptionEncoders)

NextCaption == VideoPacket \/ AudioPacket \/ CaptionText \/ CaptionData

SpecCaption == InitCaption /\ [][NextCaption]_vars

TextIdx == {i \in 1..Len(caption.injected) :
               caption.injected[i].kind = "text"}

\* display_duration seconds in the unit of frame_timestamp
InFrameUnits(seconds) == seconds * env.video_den

\* C25: after a text caption with display_duration d went into the video
\* frame with timestamp t, caption_timestamp is t + d, and every text caption
\* injected later goes into a frame with timestamp at least t + d
TextCaptionPacing ==
    /\ \A i \in TextIdx, j \in TextIdx :
          i < j => caption.injected[j].frame_timestamp >=
                      caption.injected[i].frame_timestamp
                         + InFrameUnits(caption.injected[i].display_duration)
    /\ \A i \in TextIdx :
          (sent # <<>> /\ sent[Len(sent)].seq = caption.injected[i].seq) =>
             caption.caption_timestamp =
                caption.injected[i].frame_timestamp
                   + InFrameUnits(caption.injected[i].display_duration)

\* the scenario: a text with display_duration 2.0 goes into a frame, the
\* frames 0.5 and 1.0 seconds later get nothing, the frame 2.0 seconds later
\* gets the next text
CaptionScenario ==
    \E i \in TextIdx, j \in TextIdx :
       LET t == caption.injected[i].frame_timestamp
           Bare(ts) == \E k \in 1..Len(sent) :
                          /\ sent[k].type = VIDEO
                          /\ frame_timestamp(sent[k]) = ts
                          /\ \A n \in 1..Len(caption.injected) :
                                caption.injected[n].seq # sent[k].seq
       IN /\ i < j
          /\ caption.injected[i].display_duration = 2
          /\ caption.injected[j].frame_timestamp = t + InFrameUnits(2)
          /\ Bare(t + InFrameUnits(1) \div 2)
          /\ Bare(t + InFrameUnits(1))

\* ---------------------------------------------------------- delayed start

\* the sink of a delayed output asks for data
DelayedCapture ==
    last.op = "obs_output_begin_data_capture" /\ last.pre.delay_active

SignalsOfLast == {signals[i].signal : i \in 1..Len(signals)}

\* C26 as amended: on a delayed start data capture begins at once, into the
\* delay buffer, so while the delay is active and the sink has not asked for
\* data, data_active is true and only delay_capturing is false;
\* begin_delayed_capture sets delay_capturing, leaves data_active as it is
\* (true) and emits start, or reconnect_success when reconnecting; while
\* delay_capturing is true it returns false, emits nothing and changes
\* nothing
DelayedCapturePromotes ==
    /\ (output.delay_active /\ ~output.delay_capturing) => output.data_active
    /\ (DelayedCapture /\ ~last.pre.delay_capturing) =>
          /\ last.ret
          /\ output.delay_capturing
          /\ last.pre.data_active /\ output.data_active
          /\ Len(signals) = 1
          /\ SignalsOfLast = IF last.pre.reconnecting
                             THEN {"reconnect_success"} ELSE {"start"}
    /\ (DelayedCapture /\ last.pre.delay_capturing) =>
          /\ ~last.ret
          /\ signals = <<>>
          /\ output = last.pre

\* a delayed output was started and its sink has asked for data
DelayedStartPromoted ==
    /\ DelayedCapture
    /\ ~last.pre.delay_capturing
    /\ ~last.pre.reconnecting
    /\ output.delay_capturing

\* C26 as stated: data_active and delay_capturing are both false while the
\* delayed output waits for its sink, and begin_delayed_capture sets both
DelayedStartKeepsDataInactive ==
    /\ (output.delay_active /\ ~output.delay_capturing) =>
          ~output.data_active
    /\ (DelayedCapture /\ ~last.pre.delay_capturing) =>
          /\ ~last.pre.data_active
          /\ output.data_active /\ output.delay_capturing

\* ------------------------------------------------- the alignment scenario

\* video at dts 1000, 1033, 1066, ... with timebase 1/30 and one audio track
\* at dts 23, 46, 69, 92, ... with timebase 1/1000
AlignEncoders ==
    {[Encoder(1, 0, {33}, {23}, <<0, 0>>, TRUE) EXCEPT
         !.video_start = 967, !.video_den = 30, !.audio_den = 1000]}

InitAlign == InitActive /\ InitPackets(AlignEncoders)

SpecAlign == InitAlign /\ [][NextIL]_vars

\* the three video and the four audio packets of the scenario have arrived
AlignFed ==
    /\ Len(fed) = 7
    /\ {fed[i].dts : i \in FedIdx(VIDEO, 0)} = {1000, 1033, 1066}
    /\ {fed[i].dts : i \in FedIdx(AUDIO, 0)} = {23, 46, 69, 92}

\* C27 as amended: the four audio packets (dts_usec 23000 to 92000) all lie
\* before the first video packet (dts_usec 33333333), so in every arrival
\* order the interleaver is still waiting for audio past the first video
\* packet when all seven have arrived: no offset is set and no packet has
\* been delivered
AlignScenarioWaits ==
    AlignFed =>
       /\ ~(received_video /\ received_audio)
       /\ video_offset = 0
       /\ audio_offsets[0] = 0
       /\ sent = <<>>

\* C27 as stated: the offsets are the first dts of each track and the first
\* video and the first audio packet delivered have dts 0
AlignScenarioOffsets ==
    AlignFed =>
       /\ video_offset = 1000
       /\ audio_offsets[0] = 23
       /\ SentIdx(VIDEO, 0) # {} /\ sent[Min(SentIdx(VIDEO, 0))].dts = 0
       /\ SentIdx(AUDIO, 0) # {} /\ sent[Min(SentIdx(AUDIO, 0))].dts = 0

\* ------------------------------------------- the premature-audio scenario

\* video at dts_usec 0, 33333, ... (timebase 1/30) and one audio track at
\* dts_usec -200000, -100000, 0, ... (timebase 1/10)
PrematureEncoders ==
    {[Encoder(1, 0, {1}, {1}, <<-3, -3>>, TRUE) EXCEPT
         !.video_start = -1, !.video_den = 30, !.audio_den = 10]}

InitPremature == InitActive /\ InitPackets(PrematureEncoders)

SpecPremature == InitPremature /\ [][NextIL]_vars

\* type and dts_usec of the packets in the interleave buffer, in order
Buffered ==
    [i \in 1..Len(interleaved_packets) |->
        <<interleaved_packets[i].type, interleaved_packets[i].dts_usec>>]

\* the three audio and the two video packets of the scenario have arrived
PrematureFed ==
    /\ Len(fed) = 5
    /\ {fed[i].dts_usec : i \in FedIdx(AUDIO, 0)} = {-200000, -100000, 0}
    /\ {fed[i].dts_usec : i \in FedIdx(VIDEO, 0)} = {0, 33333}

\* the five packets in one buffer, in the order insert_interleaved_packet
\* gives them, and what prune_interleaved_packets leaves of it
PrematureBuffer == [Output EXCEPT !.interleaved_packets = resort_from(fed, <<>>)]

Pruned == prune_interleaved_packets(PrematureBuffer).o.interleaved_packets

PrunedBuffer == [i \in 1..Len(Pruned) |-> <<Pruned[i].type, Pruned[i].dts_usec>>]

\* C28 as amended: the difference first audio - first video is signed
\* (-200000), so it does not exceed the frame duration and the closest
\* audio/video pair decides: startup pruning discards the buffer indices
\* below 2, the two premature audio packets, and the buffer that remains is
\* the video packet at 0, the audio packet at 0 and the video packet at
\* 33333, in every arrival order
PrematureScenarioKeepsPair ==
    PrematureFed =>
       /\ Len(PrematureBuffer.interleaved_packets) - Len(Pruned) = 2
       /\ PrunedBuffer = << <<VIDEO, 0>>, <<AUDIO, 0>>, <<VIDEO, 33333>> >>
       /\ Buffered = << <<VIDEO, 0>>, <<AUDIO, 0>>, <<VIDEO, 33333>> >>
       /\ sent = <<>>

\* C28 as stated: the indices below 3 are discarded and the audio packet at
\* 0 and the video packet at 33333 remain
PrematureScenarioCutsThree ==
    PrematureFed =>
       /\ Len(PrematureBuffer.interleaved_packets) - Len(Pruned) = 3
       /\ PrunedBuffer = << <<AUDIO, 0>>, <<VIDEO, 33333>> >>
       /\ Buffered = << <<AUDIO, 0>>, <<VIDEO, 33333>> >>

\* ------------------------------------------- pruning with two audio tracks

\* two audio tracks whose first packets lie on either side of one video
\* frame duration after the first video packet, in both orders of the tracks
PruneEncoders ==
    {Encoder(2, 0, {1}, {1}, <<8, 7>>, TRUE),
     Encoder(2, 0, {1}, {1}, <<7, 8>>, TRUE)}

InitPrune == InitActive /\ InitPackets(PruneEncoders)

SpecPrune == InitPrune /\ [][NextIL]_vars

\* the output as interleave_packets hands it to prune_interleaved_packets
\* when 'packet' arrives at o
BeforePrune(o, packet) ==
    set_higher_ts([check_received(o, packet) EXCEPT
                      !.interleaved_packets =
                          insert_interleaved_packet(@, packet)],
                  packet)

\* the callback of 'packet' at o runs the startup pruning
Prunes(o, packet) ==
    /\ ~(o.received_audio /\ o.received_video)
    /\ ~(~o.received_video /\ packet.type = VIDEO /\ ~packet.keyframe)
    /\ BeforePrune(o, packet).received_audio
    /\ BeforePrune(o, packet).received_video

\* the first packet of the video and of every audio track is in the buffer
AllFirst(o) ==
    /\ find_first_packet_type_idx(o, VIDEO, 0) # -1
    /\ \A i \in AudioTracks : find_first_packet_type_idx(o, AUDIO, i) # -1

\* what the rule on max_diff leaves of the buffer of o
CutOnMaxDiff(o) ==
    LET video == PacketAt(o, find_first_packet_type_idx(o, VIDEO, 0))
        first_audio(i) == PacketAt(o, find_first_packet_type_idx(o, AUDIO, i))
        max_diff == Max({first_audio(i).dts_usec - video.dts_usec :
                            i \in AudioTracks})
        max_idx == Max({find_first_packet_type_idx(o, VIDEO, 0)}
                       \cup {find_first_packet_type_idx(o, AUDIO, i) :
                                i \in AudioTracks})
        duration_usec == CDiv(video.timebase_num * 1000000, video.timebase_den)
        start_idx == IF max_diff > duration_usec THEN max_idx + 1
                     ELSE get_interleaved_start_idx(o)
    IN discard_to_idx(o, start_idx).interleaved_packets

\* C29: whenever a callback runs the startup pruning on a buffer that holds
\* a first packet of every track, the buffer is cut up to and including the
\* last of the first-per-track indices if the maximum over the audio tracks
\* of first audio - first video exceeds one video frame duration, and at the
\* closest audio/video pair otherwise
PruneDecidesOnMaxDiff ==
    [][LET packet == fed'[Len(fed')]
           o == BeforePrune(Output, packet)
       IN (Len(fed') = Len(fed) + 1 /\ Prunes(Output, packet) /\ AllFirst(o))
             => prune_interleaved_packets(o).o.interleaved_packets
                   = CutOnMaxDiff(o)]_vars

\* --------------------------------------------------------- the emit step

\* the head of the buffer pk has a packet of the opposing type and of
\* greater dts_usec behind it
HeadEligible(pk) ==
    /\ pk # <<>>
    /\ \E i \in 2..Len(pk) : /\ pk[i].type # pk[1].type
                              /\ pk[i].dts_usec > pk[1].dts_usec

\* C30: when a callback of interleave_packets returns in steady state (both
\* streams had been received before it), the head of the interleave buffer,
\* if there is one, has no packet of the opposing type and greater dts_usec
\* behind it: every packet that may be emitted has been emitted
EmitDrainsEligible ==
    [][(received_video /\ received_audio /\ Len(fed') = Len(fed) + 1)
          => ~HeadEligible(interleaved_packets')]_vars


\* -------------------------------------------------- order of the buffer

\* C31: between two callbacks the buffered packets are in ascending dts_usec
\* order and, among packets of equal dts_usec, every video packet stands before
\* every audio packet; before the initialization, after the rebase and
\* re-sort, and after every insertion that follows
BufferSorted ==
    \A i, j \in 1..Len(interleaved_packets) :
        i < j =>
            LET a == interleaved_packets[i]
                b == interleaved_packets[j]
            IN /\ a.dts_usec <= b.dts_usec
               /\ a.dts_usec = b.dts_usec => ~(a.type = AUDIO /\ b.type = VIDEO)

\* after the initialization a packet was inserted before the end of the
\* buffer, which holds a video and an audio packet of one dts_usec
SortedInsertAfterStart ==
    /\ received_video /\ received_audio
    /\ sent # <<>>
    /\ \E i, j \in 1..Len(interleaved_packets) :
          /\ i < j
          /\ interleaved_packets[i].type = VIDEO
          /\ interleaved_packets[j].type = AUDIO
          /\ interleaved_packets[i].dts_usec = interleaved_packets[j].dts_usec
    /\ \E i \in 1..(Len(interleaved_packets) - 1) :
          interleaved_packets[i].seq = npackets

\* ------------------------------------------------ offsets of the buffer

\* the offset of the track of a packet
OffsetOf(pk) ==
    IF pk.type = VIDEO THEN video_offset ELSE audio_offsets[pk.track_idx]

\* 'pk' is the packet the encoder handed over with 'offset' taken once from
\* its dts and pts, and its dts_usec is that of the new dts
Rebased(pk, offset) ==
    LET raw == fed[pk.seq]
    IN /\ pk.dts = raw.dts - offset
       /\ pk.pts = raw.pts - offset
       /\ pk.dts_usec = packet_dts_usec(pk)

\* C32: when interleave_packets has returned with received_video and
\* received_audio both set, every buffered packet has had the offset of its
\* track subtracted exactly once; while a flag is clear (no attempt to
\* initialize has succeeded, each failed one having cleared a flag) no offset
\* is stored and every buffered packet is as its encoder handed it over
OffsetsAppliedOnce ==
    /\ (received_video /\ received_audio) =>
          \A i \in 1..Len(interleaved_packets) :
              Rebased(interleaved_packets[i], OffsetOf(interleaved_packets[i]))
    /\ ~(received_video /\ received_audio) =>
          /\ video_offset = 0
          /\ \A t \in Tracks : audio_offsets[t] = 0
          /\ \A i \in 1..Len(interleaved_packets) :
                Rebased(interleaved_packets[i], 0)

\* the output has started, after it discarded a packet, with different offsets
\* for video and audio, and holds packets that arrived before and after the
\* first packet it delivered
RebasedBuffer ==
    /\ received_video /\ received_audio
    /\ video_offset > 0 /\ audio_offsets[0] > 0
    /\ video_offset # audio_offsets[0]
    /\ sent # <<>>
    /\ \E i, j \in 1..Len(interleaved_packets) :
          /\ interleaved_packets[i].seq < sent[1].seq
          /\ interleaved_packets[j].seq > sent[1].seq
    /\ \E k \in 1..Len(fed) : k < sent[1].seq /\ fed[k].seq \notin
          ({sent[i].seq : i \in 1..Len(sent)}
           \cup {interleaved_packets[i].seq : i \in 1..Len(interleaved_packets)})

\* ------------------------------------------------- highest time stamps

\* the packets fed that interleave_packets kept past its keyframe test: every
\* audio packet, and the video packets from the first keyframe on
Accepted(type) ==
    {k \in 1..Len(fed) :
        /\ fed[k].type = type
        /\ type = VIDEO =>
              \E f \in 1..k : fed[f].type = VIDEO /\ fed[f].keyframe}

\* the dts_usec packet fed[k] has once the offset of its track is subtracted
RebasedUsec(k) ==
    apply_interleaved_packet_offset(Output, fed[k]).dts_usec

\* C33: once the output has started, highest_video_ts is the largest rebased
\* dts_usec of the video packets accepted so far and highest_audio_ts the
\* largest rebased dts_usec of the audio packets accepted so far, whatever
\* the first video packet's pts - dts and the number of audio tracks (a
\* difference of 1 usec, which the truncation of dts_usec can make, is let
\* pass)
HighestTsRebased ==
    (received_video /\ received_audio) =>
        /\ Abs(highest_video_ts
               - Max({RebasedUsec(k) : k \in Accepted(VIDEO)})) <= 1
        /\ Abs(highest_audio_ts
               - Max({RebasedUsec(k) : k \in Accepted(AUDIO)})) <= 1

\* ------------------------------------------- cancelling the reconnect worker

\* C34: the reconnect worker goes on to obs_output_actual_start only from a
\* wait that reconnect_stop_event did not end, and the sink's start is called
\* by nothing else; a worker whose wait the event ends changes nothing,
\* emits no signal, makes no call and finds the event still signalled at its
\* os_event_try, after which the output is not reconnecting
ReconnectCancelled ==
    [][LET at == pc[Worker].at
           at2 == pc'[Worker].at
           quiet == signals' = <<>> /\ calls' = <<>>
       IN /\ (at # "actual_start" /\ at2 = "actual_start") =>
                (at = "timedwait" /\ ~output.reconnect_stop_event)
          /\ "info.start" \in Range(calls') =>
                (at = "actual_start" /\ at2 = "try")
          /\ (at = "timedwait" /\ at2 # at /\ output.reconnect_stop_event) =>
                (at2 = "try" /\ output' = output /\ quiet)
          /\ output.reconnect_stop_event => output'.reconnect_stop_event
          /\ (at = "try" /\ at2 = "exit" /\ output.reconnect_stop_event) =>
                (~output'.reconnecting /\ quiet)
          /\ (at = "exit" /\ at2 = "done") =>
                (output'.reconnecting = output.reconnecting /\ quiet)]_vars

\* the worker has returned after a stop signalled reconnect_stop_event: the
\* sink was not started and the output is not reconnecting
WorkerCancelled ==
    /\ pc[Worker].at = "done"
    /\ output.reconnect_stop_event
    /\ ~output.reconnecting
    /\ ~output.reconnect_thread_active
    /\ sink = "idle"
    /\ emitted["reconnect_success"] = 0

\* ------------------------------------ a disconnect while the delay is active

\* the sink has reported a stop that can be retried while the delay was
\* active
RetryableStopInDelay ==
    /\ last.op = "obs_output_signal_stop"
    /\ last.pre.delay_active
    /\ can_reconnect(PreWorld, last.code)

\* what obs_output_signal_stop hands to output_reconnect: the output after
\* delay_restart_refs was raised and the silent end of the data capture
SilentEnd ==
    obs_output_end_data_capture_internal(
        [PreWorld EXCEPT !.output.stop_code = last.code,
                         !.output.delay_restart_refs = @ + 1],
        FALSE)

\* C35: when the sink reports a stop that can be retried while the delay is
\* active, delay_restart_refs is raised by one and the silent end of the data
\* capture clears delay_capturing and signals stopping_event and nothing
\* else: active, data_active, delay_active and every other field are as
\* before, no teardown worker is started and no signal is emitted
SilentEndKeepsCapture ==
    RetryableStopInDelay =>
        /\ SilentEnd.output =
              [last.pre EXCEPT !.stop_code = last.code,
                               !.delay_restart_refs = @ + 1,
                               !.delay_capturing = FALSE,
                               !.stopping_event = TRUE]
        /\ SilentEnd.signals = <<>>
        /\ ~SilentEnd.output.end_data_capture_thread_active

\* a disconnect was reported while the delayed capture was running, and the
\* reconnect worker was scheduled
DisconnectedInDelayedCapture ==
    /\ RetryableStopInDelay
    /\ last.code = DISCONNECTED
    /\ last.pre.delay_capturing
    /\ ~last.pre.reconnecting
    /\ output.reconnecting
    /\ output.delay_restart_refs > 0

\* ------------------------------------------------ consuming the captions

\* the SEIs of one kind injected so far
Injected(c, kind) ==
    Len(SelectSeq(c.injected, LAMBDA e : e.kind = kind))

\* C36: caption_timestamp moves only together with a pop of the text list:
\* whenever it is set, the head of the list, and nothing but the head, was
\* rendered into one SEI and removed, also while the CEA-708 queue holds
\* data; and a video packet of priority above 1 takes nothing from the list
\* or the queue
TimestampMovesWithPop ==
    [][/\ caption'.caption_timestamp # caption.caption_timestamp =>
             /\ caption.caption_head # <<>>
             /\ caption'.caption_head = Tail(caption.caption_head)
             /\ Injected(caption', "text") = Injected(caption, "text") + 1
       /\ (/\ Len(sent') = Len(sent) + 1
           /\ sent'[Len(sent')].type = VIDEO
           /\ sent'[Len(sent')].priority > 1) =>
             /\ caption'.caption_head = caption.caption_head
             /\ caption'.caption_data = caption.caption_data]_vars

\* ------------------------------------------------ the order of the mutexes
\* Two outputs are active. Each has a video encoder and two audio encoders,
\* which obs_output_set_audio_encoder lets the front end place in any slot and
\* share between outputs. Threads call the functions of this file that hold
\* more than one mutex, or a mutex those functions use; every lock and
\* unlock is a step. env.outputs holds the encoders of each output.

lock(m) == <<"lock", m>>

unlock(m) == <<"unlock", m>>

Reverse(q) == [i \in 1..Len(q) |-> q[Len(q) + 1 - i]]

\* obs_encoded_output_pause: the video encoder's pause.mutex, then the audio
\* encoders' in the order of the slots; released in the opposite order
encoded_pause_locks(o) ==
    LET venc == <<"pause.mutex", env.outputs[o].video_encoder>>
        aenc == [i \in DOMAIN env.outputs[o].audio_encoders |->
                    <<"pause.mutex", env.outputs[o].audio_encoders[i]>>]
    IN <<lock(venc)>> \o [i \in DOMAIN aenc |-> lock(aenc[i])]
       \o Reverse([i \in DOMAIN aenc |-> unlock(aenc[i])]) \o <<unlock(venc)>>

\* pair_encoders with the audio encoder find_inactive_audio_encoder found
pair_encoders_locks(o, audio) ==
    LET a == <<"init_mutex", audio>>
        v == <<"init_mutex", env.outputs[o].video_encoder>>
    IN <<lock(a), lock(v), unlock(v), unlock(a)>>

\* interleave_packets sending a video packet: send_interleaved takes
\* caption_mutex under interleaved_mutex
interleave_packets_locks(o) ==
    LET i == <<"interleaved_mutex", o>>
        c == <<"caption_mutex", o>>
    IN <<lock(i), lock(c), unlock(c), unlock(i)>>

\* obs_output_caption and obs_output_output_caption_text2
caption_locks(o) ==
    LET c == <<"caption_mutex", o>>
    IN <<lock(c), unlock(c)>>

LockCalls ==
    UNION {{[op |-> "obs_encoded_output_pause", todo |-> encoded_pause_locks(o)],
            [op |-> "interleave_packets", todo |-> interleave_packets_locks(o)],
            [op |-> "obs_output_caption", todo |-> caption_locks(o)]}
           \cup {[op |-> "pair_encoders", todo |-> pair_encoders_locks(o, a)] :
                    a \in Range(env.outputs[o].audio_encoders)}
           : o \in OutputNames}

\* a thread calls one of the functions
LockCall(t) ==
    /\ pc[t].at = "idle"
    /\ \E c \in LockCalls :
          pc' = [pc EXCEPT ![t] = [op |-> c.op, at |-> "locks",
                                   todo |-> c.todo]]
    /\ UNCHANGED <<ilVars, lcVars, exVars>>

\* pthread_mutex_lock returns once the mutex is free
MutexLock(t) ==
    /\ pc[t].at = "locks"
    /\ pc[t].todo # <<>>
    /\ pc[t].todo[1][1] = "lock"
    /\ mutexes[pc[t].todo[1][2]] = 0
    /\ mutexes' = [mutexes EXCEPT ![pc[t].todo[1][2]] = t]
    /\ pc' = [pc EXCEPT ![t].todo = Tail(@)]
    /\ UNCHANGED <<ilVars, lcVars, caption, services>>

MutexUnlock(t) ==
    /\ pc[t].at = "locks"
    /\ pc[t].todo # <<>>
    /\ pc[t].todo[1][1] = "unlock"
    /\ mutexes' = [mutexes EXCEPT ![pc[t].todo[1][2]] = 0]
    /\ pc' = [pc EXCEPT ![t].todo = Tail(@)]
    /\ UNCHANGED <<ilVars, lcVars, caption, services>>

\* the function returns
LockReturn(t) ==
    /\ pc[t].at = "locks"
    /\ pc[t].todo = <<>>
    /\ pc' = [pc EXCEPT ![t] = [op |-> "", at |-> "idle"]]
    /\ UNCHANGED <<ilVars, lcVars, exVars>>

\* the first output, and a second one that may share its encoders, in the
\* same slots or in others
LockOutputs ==
    {[o \in OutputNames |->
         IF o = "output 1"
         THEN [video_encoder |-> "video 1",
               audio_encoders |-> <<"audio 1", "audio 2">>]
         ELSE [video_encoder |-> v, audio_encoders |-> a]] :
        v \in VideoEncoderIds,
        a \in {<<"audio 1", "audio 2">>, <<"audio 2", "audio 1">>}}

InitLock ==
    /\ InitOutput
    /\ interleaved_packets = <<>>
    /\ received_video = FALSE
    /\ received_audio = FALSE
    /\ highest_video_ts = 0
    /\ highest_audio_ts = 0
    /\ video_offset = 0
    /\ audio_offsets = [i \in Tracks |-> 0]
    /\ total_frames = 0
    /\ env \in {[outputs |-> c] : c \in LockOutputs}
    /\ enc_dts = [video |-> 0, audio |-> [i \in Tracks |-> 0]]
    /\ npackets = 0
    /\ sent = <<>>
    /\ fed = <<>>
    /\ caption = NoCaptions
    /\ services = NoServices
    /\ mutexes = NoMutexes

NextLock ==
    \E t \in Threads :
        \/ LockCall(t)
        \/ MutexLock(t)
        \/ MutexUnlock(t)
        \/ LockReturn(t)

SpecLock == InitLock /\ [][NextLock]_vars

\* thread t waits in pthread_mutex_lock for a mutex that is held
Blocked(t) ==
    /\ pc[t].at = "locks"
    /\ pc[t].todo # <<>>
    /\ pc[t].todo[1][1] = "lock"
    /\ mutexes[pc[t].todo[1][2]] # 0

\* C37: the mutexes are taken in one global order (in a pause the video
\* encoder's pause mutex, then the audio encoders' by slot; in pairing the
\* audio init_mutex before the video one; in the emit step caption_mutex
\* under interleaved_mutex), so there is no state in which each of two
\* threads holds a mutex the other waits for
NoLockCycle ==
    ~\E S \in SUBSET Threads :
        /\ S # {}
        /\ \A t \in S : Blocked(t) /\ mutexes[pc[t].todo[1][2]] \in S

\* ------------------------------------------------ paused after the session

\* C38: paused does not outlive a session: whenever the output is not active,
\* paused is false, however the session ended (obs_output_stop,
\* obs_output_force_stop, or the sink ending the data capture on its own
\* while the output was paused)
PausedOnlyWhileActive == ~output.active => ~output.paused

\* ------------------------------------------ delay_capturing after the session

\* no handler is running and no worker is left to run
Quiescent ==
    /\ \A t \in Threads : pc[t].at \in {"idle", "done"}
    /\ ~output.end_data_capture_thread_active
    /\ ~output.reconnect_thread_active

\* C39: in every quiescent state delay_capturing implies delay_active: once a
\* delayed session has ended, by whatever path, delay_capturing is false
DelayCapturingImpliesDelayActive ==
    Quiescent => (output.delay_capturing => output.delay_active)

\* --------------------------------------------- active across a reconnect

\* obs_output_active
obs_output_active(w) == w.output.active \/ reconnecting(w)

\* The sink's thread runs obs_output_signal_stop in two steps, the silent end
\* of the data capture and output_reconnect, and the teardown worker the
\* first step has created may run between them.

\* the sink's thread, which is not the reconnect worker
SinkThread == Worker + 1

\* output->stop_code = code and, for a stop that can be retried, the silent
\* obs_output_end_data_capture_internal; any other stop is finalized at once
SignalStopEnd ==
    /\ sink \in {"connecting", "streaming", "stopping"}
    /\ pc[SinkThread].at = "idle"
    /\ \E code \in StopCodes :
         LET w1 == [World EXCEPT !.output.stop_code = code, !.sink = "idle"]
         IN IF can_reconnect(w1, code)
            THEN Step(obs_output_end_data_capture_internal(
                          [w1 EXCEPT !.output.delay_restart_refs =
                                         IF delay_active(w1) THEN @ + 1
                                         ELSE @],
                          FALSE),
                      SinkThread, "obs_output_signal_stop",
                      "output_reconnect")
            ELSE Step(obs_output_end_data_capture(
                          [w1 EXCEPT !.output.delay_active = FALSE]),
                      SinkThread, "", "idle")

\* output_reconnect(output), the last statement of the retried stop
SignalStopReconnect ==
    /\ pc[SinkThread].at = "output_reconnect"
    /\ Step(output_reconnect(World), SinkThread, "", "idle")

NextGap ==
    \/ SetReconnectSettings
    \/ Start
    \/ SinkConnected
    \/ SignalStopEnd
    \/ SignalStopReconnect
    \/ ReconnectThread
    \/ EndDataCaptureThread

InitGap == InitOutput /\ InitPackets(IdleEncoders)

SpecGap == InitGap /\ [][NextGap]_vars

\* the data capture had begun, and output_reconnect is about to schedule a
\* reconnect: retries are left
WillReconnect ==
    /\ pc[SinkThread].at = "output_reconnect"
    /\ emitted["activate"] > 0
    /\ emitted["stop"] = 0
    /\ (IF output.reconnecting THEN output.reconnect_retries ELSE 0)
          < output.reconnect_retry_max

\* the output has been disconnected and is being reconnected: the retried
\* stop is being handled, or a reconnect was signalled and the output has not
\* given up or been stopped since
AcrossReconnect ==
    \/ WillReconnect
    \/ (emitted["reconnect"] > 0 /\ emitted["stop"] = 0 /\ stops = 0)

\* C40: obs_output_active, active or reconnecting, stays true without a gap
\* across a reconnect: from the disconnect to the reconnect_success there is
\* no state, in any interleaving of the teardown worker and the reconnect
\* worker, in which active and reconnecting are both false
ActiveAcrossReconnect ==
    AcrossReconnect => obs_output_active(World)

==============================================================================
